---- MODULE Spec2Model ----
(***************************************************************************)
(* le-responder: the renewal engine (daemon.go), the certificate store     *)
(* keys (pathFromHost / hostFromPath), the ACME certificate source, the    *)
(* challenge responder and the admin "update" handler.                     *)
(*                                                                         *)
(* Go strings are modelled as sequences of byte values (0..255), so that   *)
(* the hex encoding of the store paths is computed and not assumed.        *)
(* Time is in seconds.                                                     *)
(***************************************************************************)
EXTENDS Integers, Sequences, FiniteSets, TLC

(***************************************************************************)
(* Bounds of the model.                                                    *)
(***************************************************************************)
\* longest hostname drawn for the path encoding
MaxHostLen == 2

\* number of times the scan loop sleeps
MaxSleeps == 1

\* the iterations of the scan loop followed when it runs alone
MaxLoopSleeps == 2

\* the calls of CertsAreUpdated followed
MaxUpdates == 3

\* number of requests the admin server serves
MaxRequests == 2

\* number of AutoFetchCert calls made
MaxCalls == 2

\* number of authorizations of an order
MaxAuthz == 2

\* number of certificates saved while the publish loop is watched
MaxSignals == 2

\* seconds for which the publish loop is watched
MaxTime == 80

\* number of fan-outs up to which time passes for the publish loop
MaxFanouts == 2

(***************************************************************************)
(* Strings and encoding/hex.                                               *)
(***************************************************************************)
\* "/certs/"
CertsPrefix == <<47, 99, 101, 114, 116, 115, 47>>

\* "0123456789abcdef"
hextable == <<48, 49, 50, 51, 52, 53, 54, 55, 56, 57, 97, 98, 99, 100, 101, 102>>

\* hex.EncodeToString: two characters per byte, high nibble first
EncodeToString(b) ==
    [i \in 1..(2 * Len(b)) |->
        IF i % 2 = 1
        THEN hextable[(b[(i + 1) \div 2] \div 16) + 1]
        ELSE hextable[(b[i \div 2] % 16) + 1]]

\* hex.fromHexChar: the value of a hex digit, -1 when c is none
fromHexChar(c) ==
    IF c >= 48 /\ c <= 57 THEN c - 48
    ELSE IF c >= 97 /\ c <= 102 THEN c - 97 + 10
    ELSE IF c >= 65 /\ c <= 70 THEN c - 65 + 10
    ELSE -1

\* hex.DecodeString: an error for an odd length or a character that is no digit
DecodeString(s) ==
    IF Len(s) % 2 = 1 \/ (\E i \in 1..Len(s) : fromHexChar(s[i]) = -1)
    THEN [ok |-> FALSE, bytes |-> <<>>]
    ELSE [ok |-> TRUE,
          bytes |-> [i \in 1..(Len(s) \div 2) |->
                        16 * fromHexChar(s[2 * i - 1]) + fromHexChar(s[2 * i])]]

\* the high nibble written from the low one
pathFromHost_lowNibble(hostname) ==
    CertsPrefix \o [i \in 1..(2 * Len(hostname)) |->
                       hextable[(hostname[(i + 1) \div 2] % 16) + 1]]

pathFromHost(hostname) == CertsPrefix \o EncodeToString(hostname)

hostFromPath(path) ==
    IF Len(path) < Len(CertsPrefix) THEN <<>>
    ELSE LET r == DecodeString(SubSeq(path, Len(CertsPrefix) + 1, Len(path)))
         IN  IF r.ok THEN r.bytes ELSE <<>>

(***************************************************************************)
(* Inputs of the path encoding.                                            *)
(***************************************************************************)
\* NUL, '-', 'a', 0xaf, 0xff
ByteSample == {0, 45, 97, 175, 255}

SeqsUpTo(S, n) == UNION {[1..k -> S] : k \in 0..n}

HostStrings == SeqsUpTo(ByteSample, MaxHostLen)

(***************************************************************************)
(* Configuration (the example manifest) and the daemon's fixed state.      *)
(***************************************************************************)
\* 24 * time.Hour, in seconds
Day == 86400

\* days_before
DaysBefore == 32

\* period, in seconds
Period == 86400

\* bootstrap.source
BootstrapSource == "self-signed"

\* the configured sources of type acme
AcmeSources == {"le-prod", "le-staging"}

\* the keys of dc.certFactories after Init
certFactories == {"self-signed"} \cup AcmeSources

\* "proxy-bootstrap"
BootstrapHN == <<112, 114, 111, 120, 121, 45, 98, 111, 111, 116, 115, 116, 114, 97, 112>>

\* the hostname of the admin server's external URL: "le"
ourHN == <<108, 101>>

\* a hostname an operator adds: "a"
UserHN == <<97>>

fixedHosts == <<BootstrapHN, ourHN>>

Hosts == {BootstrapHN, ourHN, UserHN}

\* no host is taken to be fixed
isFixedHost_none(hostname) == FALSE

\* every host counts as fixed
isFixedHost_all(hostname) == TRUE

isFixedHost(hostname) == \E i \in 1..Len(fixedHosts) : fixedHosts[i] = hostname

\* every host is taken to be deletable
CanDelete_always(hostname) == TRUE

CanDelete(hostname) == ~isFixedHost(hostname)

(***************************************************************************)
(* Certificate records (credhubCert) and the store.                        *)
(***************************************************************************)
NoChallenge == "nil"

\* the Certificate field: what pem.Decode and x509.ParseCertificate make of it
NoCert == [pem |-> "none", notAfter |-> 0]
BadCert == [pem |-> "invalid", notAfter |-> 0]
Cert(notAfter) == [pem |-> "cert", notAfter |-> notAfter]

\* the record the "create" action saves: only Source is set
createdRecord(source) ==
    [Source |-> source, Type |-> "", CA |-> "", Certificate |-> NoCert,
     PrivateKey |-> "", Challenge |-> NoChallenge]

\* a nil *credhubCert
NilCert == createdRecord("")

\* certStore.SavePath and DeletePath on the store's contents
SavePath(st, path, chc) ==
    [q \in (DOMAIN st) \cup {path} |-> IF q = path THEN chc ELSE st[q]]

DeletePath(st, path) == [q \in (DOMAIN st) \ {path} |-> st[q]]

\* certStore.LoadPath when the request reaches the store
LoadPath(st, path) ==
    IF path \in DOMAIN st
    THEN [err |-> "", chc |-> st[path]]
    ELSE [err |-> "notfound", chc |-> NilCert]

\* the errors of a store request that fails for another reason
StoreErrors == {"comms", "other"}

(***************************************************************************)
(* renewCertIfNeeded: the renewal-necessity decision.                      *)
(***************************************************************************)
\* a pending challenge does not stop the renewal
hasChallenge_never(chc) == FALSE

hasChallenge(chc) == chc.Challenge # NoChallenge

\* an expired certificate is not noticed
alreadyExpired_never(notAfter, t) == FALSE

alreadyExpired(notAfter, t) == notAfter < t

\* the window compared with <= instead of <
withinDaysBefore_inclusive(notAfter, t) == notAfter <= t + Day * DaysBefore

withinDaysBefore(notAfter, t) == notAfter < t + Day * DaysBefore

\* the bootstrap source used for existing records too
sourceToUse_bootstrap(load) == BootstrapSource

sourceToUse(load) == IF load.err = "" THEN load.chc.Source ELSE BootstrapSource

Decision(err, needNew, source) == [err |-> err, needNew |-> needNew, source |-> source]

\* any failed load is taken for a missing record
loadDecision_anyErrorMissing(load) ==
    IF load.err # ""
    THEN Decision("", TRUE, sourceToUse(load))
    ELSE Decision(load.err, FALSE, "")

\* a missing record is reported as an error
loadDecision_notFoundFails(load) == Decision(load.err, FALSE, "")

\* lines 204-212: the outcome of LoadPath
loadDecision(load) ==
    IF load.err = "notfound"
    THEN Decision("", TRUE, sourceToUse(load))
    ELSE Decision(load.err, FALSE, "")

\* an unissued record is renewed like a missing one
pemDecision_emptyRenews(chc, t) ==
    IF chc.Certificate.pem = "none"
    THEN Decision("", TRUE, chc.Source)
    ELSE IF chc.Certificate.pem = "invalid"
    THEN Decision("invalid cert found in pem", FALSE, "")
    ELSE IF alreadyExpired(chc.Certificate.notAfter, t)
    THEN Decision("cert already expired", FALSE, "")
    ELSE Decision("", withinDaysBefore(chc.Certificate.notAfter, t), chc.Source)

\* lines 226-246: the stored certificate
pemDecision(chc, t) ==
    IF chc.Certificate.pem = "none"
    THEN Decision("no cert found in pem", FALSE, "")
    ELSE IF chc.Certificate.pem = "invalid"
    THEN Decision("invalid cert found in pem", FALSE, "")
    ELSE IF alreadyExpired(chc.Certificate.notAfter, t)
    THEN Decision("cert already expired", FALSE, "")
    ELSE Decision("", withinDaysBefore(chc.Certificate.notAfter, t),
                  sourceToUse([err |-> "", chc |-> chc]))

\* lines 199-250: what renewCertIfNeeded does with the result of LoadPath at
\* time t: an error to return, or whether RenewCertNow is called and with
\* which source
renewDecision(load, t) ==
    IF load.err # "" THEN loadDecision(load)
    ELSE IF hasChallenge(load.chc)
    THEN Decision("challenge not empty", FALSE, "")
    ELSE pemDecision(load.chc, t)

\* the record written keeps a pending challenge
issuedRecord_keepsChallenge(hostname, cs, der) ==
    [Source |-> cs, Type |-> IF CanDelete(hostname) THEN "user" ELSE "admin",
     CA |-> "roots", Certificate |-> der, PrivateKey |-> "key",
     Challenge |-> "dns-01"]

\* lines 349-366: the record getCertAndSave writes
issuedRecord(hostname, cs, der) ==
    [Source |-> cs, Type |-> IF CanDelete(hostname) THEN "user" ELSE "admin",
     CA |-> "roots", Certificate |-> der, PrivateKey |-> "key",
     Challenge |-> NoChallenge]

\* what a certificate source hands back: the leaf's notAfter is the CA's choice
Validities == {Day}

\* the orders in which the store can list the records of st
ListOrders(st) ==
    {f \in [1..Cardinality(DOMAIN st) -> DOMAIN st] :
        \A i, j \in DOMAIN f : f[i] = f[j] => i = j}

VARIABLES
    encHost,    \* the two hostnames given to pathFromHost
    encPath,    \* their paths, once computed
    decHost,    \* hostFromPath of the first path, once computed
    encPc,
    store,      \* the credential store: path -> credhubCert
    now,        \* time.Now(), in seconds
    updateRequests, \* number of signals in dc.updateRequests
    scanPc,     \* where the periodic scan loop is
    scanTodo,   \* hostnames the running periodicScan has still to evaluate
    scanDer,    \* the certificate getCertAndSave got from the issuer
    retErr,     \* periodicScan's retErr
    bootstrapped, \* RunForever's bootstrapped
    sleeps,     \* number of times the scan loop has slept
    cycle,      \* what the running periodicScan, or the last one, has done
    ev,         \* the renewCertIfNeeded call in progress, or the last one
    opPc,       \* where the admin server's update handler is
    op,         \* the request it is serving
    lastOp,     \* the last request served and what it did
    requests,   \* number of requests served
    lock,       \* acmeCertSource.lock of every ACME source: locked or not
    acmeKnownRegistered, \* acmeCertSource.acmeKnownRegistered of every source
    challengeResponse,   \* serverResponder.challengeResponse: path -> value
    call,       \* the AutoFetchCert call of every goroutine that makes them
    running,    \* the process is running
    pubPc,      \* where the publish loop of RunForever is
    timer,      \* its timer t: armed or not, and when it is due
    tC,         \* number of values in t.C
    fo,         \* the updateObservers call in progress, or the last one
    hist,       \* signals sent and fan-outs started so far
    conf,       \* the configuration read and where newConf's daemonConf.Init is
    output      \* the outputObserver: its buckets and its CertsAreUpdated call

pathVars == <<encHost, encPath, decHost, encPc>>

sharedVars == <<store, now, updateRequests>>

scanVars == <<scanPc, scanTodo, scanDer, retErr, bootstrapped, sleeps, cycle, ev>>

opVars == <<opPc, op, lastOp, requests>>

acmeVars == <<lock, acmeKnownRegistered, challengeResponse, call, running>>

pubVars == <<pubPc, timer, tC, fo, hist>>

initVars == <<conf>>

sinkVars == <<output>>

vars == <<pathVars, sharedVars, scanVars, opVars, acmeVars, pubVars, initVars, sinkVars>>

\* what the actions of one component leave alone
notPath == <<sharedVars, scanVars, opVars, acmeVars, pubVars, initVars, sinkVars>>
notScan == <<pathVars, opVars, acmeVars, pubVars, initVars, sinkVars>>
notOp == <<pathVars, scanVars, acmeVars, pubVars, initVars, sinkVars>>
notAcme == <<pathVars, sharedVars, scanVars, opVars, pubVars, initVars, sinkVars>>
notPub == <<pathVars, scanVars, opVars, acmeVars, initVars, sinkVars>>
notInit == <<pathVars, sharedVars, scanVars, opVars, acmeVars, pubVars, sinkVars>>
notSink == <<pathVars, sharedVars, scanVars, opVars, acmeVars, pubVars, initVars>>

(***************************************************************************)
(* The object-storage sink: outputObserver.CertsAreUpdated and bucket.Put, *)
(* one action per call of Put.                                             *)
(***************************************************************************)
\* the archives createTarball returns for two sets of certificates (gzip
\* streams, never empty)
Archives == {<<31, 139, 8, 1>>, <<31, 139, 8, 2>>}

\* a nil slice
NilBytes == << >>

\* the buckets of outputObserver.S3 as configured, before any Put
Buckets ==
    <<[awsSession |-> FALSE, lastSuccessfulWritten |-> NilBytes],
      [awsSession |-> FALSE, lastSuccessfulWritten |-> NilBytes]>>

InitSink ==
    output = [pc |-> "idle", tb |-> NilBytes, i |-> 1, err |-> "", n |-> 0,
              puts |-> << >>, S3 |-> Buckets]

\* no two slices are taken to be equal
bytesEqual_never(a, b) == FALSE

\* bytes.Equal: a nil slice equals an empty one
bytesEqual(a, b) == a = b

\* part_000 lines 363-367: createTarball, whose error is returned
CertsAreUpdated ==
    /\ output.pc = "idle"
    /\ output.n < MaxUpdates
    /\ \/ \E tb \in Archives :
            output' = [output EXCEPT !.pc = "put", !.tb = tb, !.i = 1, !.err = "",
                                     !.n = output.n + 1, !.puts = << >>]
       \/ output' = [output EXCEPT !.pc = "returned", !.tb = NilBytes, !.i = 1,
                                   !.err = "tar", !.n = output.n + 1,
                                   !.puts = << >>]
    /\ UNCHANGED notSink

\* what a Put ends in: it returned at the comparison, NewSession failed,
\* Upload failed, or Upload succeeded
PutOutcomes(b, data) ==
    IF bytesEqual(data, b.lastSuccessfulWritten)
    THEN {[request |-> "none", err |-> ""]}
    ELSE (IF b.awsSession THEN {} ELSE {[request |-> "session", err |-> "session"]})
         \cup {[request |-> "upload", err |-> "upload"],
               [request |-> "upload", err |-> ""]}

\* the bucket after a Put of data that ended in o
afterPut(b, data, o) ==
    [awsSession |-> b.awsSession \/ o.request = "upload",
     lastSuccessfulWritten |-> IF o.request = "upload" /\ o.err = ""
                               THEN data ELSE b.lastSuccessfulWritten]

\* part_000 lines 369-374 and 257-297: the next bucket's Put, under its mutex
Put ==
    /\ output.pc = "put"
    /\ output.i <= Len(output.S3)
    /\ \E o \in PutOutcomes(output.S3[output.i], output.tb) :
        output' = [output EXCEPT
            !.S3[output.i] = afterPut(output.S3[output.i], output.tb, o),
            !.puts = Append(output.puts,
                            [bucket |-> output.i, data |-> output.tb,
                             before |-> output.S3[output.i].lastSuccessfulWritten,
                             request |-> o.request, err |-> o.err]),
            !.err = o.err,
            !.i = output.i + 1,
            !.pc = IF o.err # "" THEN "returned" ELSE "put"]
    /\ UNCHANGED notSink

\* part_000 lines 372-376: CertsAreUpdated returns
SinkReturn ==
    /\ \/ output.pc = "returned"
       \/ output.pc = "put" /\ output.i > Len(output.S3)
    /\ output' = [output EXCEPT !.pc = "idle"]
    /\ UNCHANGED notSink

(***************************************************************************)
(* newConf's call of daemonConf.Init: the validation of the configuration  *)
(* and the making of the certificate sources.                              *)
(***************************************************************************)
\* the names of the sources map
SourceNames == {"self-signed", "le-prod", "le-staging"}

\* an entry of the sources map: its type, and whether private_key holds an
\* RSA key acmeCertSource.Init can parse
SourceEntries ==
    {[Type |-> "self-signed", key |-> "none"], [Type |-> "acme", key |-> "rsa"],
     [Type |-> "acme", key |-> "none"], [Type |-> "dns", key |-> "none"]}

\* sources of the example manifest
Manifest ==
    [n \in SourceNames |->
        IF n \in AcmeSources THEN [Type |-> "acme", key |-> "rsa"]
        ELSE [Type |-> "self-signed", key |-> "none"]]

\* period and days_before as read from the configuration; a key that is
\* missing reads as 0
PeriodSample == {0, -1, Period}

DaysBeforeSample == {0, DaysBefore}

\* packaging lines 47-67: acmeCertSource.Init
acmeInit(val) == IF val.key = "rsa" THEN "" ELSE "no private key found in pem"

\* bootstrap.source as read from the configuration: the example manifest's,
\* another configured name, a name that is no key of sources, and "" for a
\* key that is missing
BootstrapSample == {BootstrapSource, "le-prod", "other-ca", ""}

\* newConf has read period, daysBefore and sm and is about to call Init
ToInit(period, daysBefore, sm) ==
    [pc |-> "init", Period |-> period, DaysBefore |-> daysBefore, sm |-> sm,
     Bootstrap |-> BootstrapSource,
     todo |-> {}, certFactories |-> {}, sources |-> {}, err |-> "",
     config |-> FALSE]

\* the daemon as newConf hands it over for the example manifest;
\* dc.sources is sorted, its order is that of the names
Started ==
    [ToInit(Period, DaysBefore, Manifest) EXCEPT
        !.pc = "done", !.certFactories = certFactories, !.sources = certFactories,
        !.config = TRUE]

InitStarted == conf = Started

\* Init returns err
InitReturns(err) == conf' = [conf EXCEPT !.pc = "returned", !.err = err]

\* days_before is not looked at
daysBeforeMissing_never(d) == FALSE

\* line 80: dc.DaysBefore == 0
daysBeforeMissing(d) == d = 0

\* lines 77-82
InitValidate ==
    /\ conf.pc = "init"
    /\ IF conf.Period = 0
       THEN InitReturns("period must be specified and non-zero. should be in seconds")
       ELSE IF daysBeforeMissing(conf.DaysBefore)
       THEN InitReturns("days before must be specified and non-zero. should be in days")
       ELSE conf' = [conf EXCEPT !.pc = "range", !.todo = DOMAIN conf.sm]
    /\ UNCHANGED notInit

\* lines 92-113: the body of the range over sm, which visits the names in
\* any order
InitSource ==
    /\ conf.pc = "range"
    /\ \E name \in conf.todo :
        LET val == conf.sm[name]
            made == [conf EXCEPT !.todo = conf.todo \ {name},
                                 !.certFactories = conf.certFactories \cup {name},
                                 !.sources = conf.sources \cup {name}]
        IN  IF val.Type = "self-signed"
            THEN conf' = made
            ELSE IF val.Type = "acme"
            THEN IF acmeInit(val) # "" THEN InitReturns(acmeInit(val))
                 ELSE conf' = made
            ELSE InitReturns("unknown cert source type")
    /\ UNCHANGED notInit

\* lines 115-126
InitFinish ==
    /\ conf.pc = "range"
    /\ conf.todo = {}
    /\ IF conf.certFactories = {}
       THEN InitReturns("must specify at least one cert source")
       ELSE InitReturns("")
    /\ UNCHANGED notInit

\* config.go lines 76-94: newConf returns the error and no config, or the
\* config whose RunForever starts the daemon
NewConfReturn ==
    /\ conf.pc = "returned"
    /\ conf' = [conf EXCEPT !.pc = "done", !.config = (conf.err = "")]
    /\ UNCHANGED notInit

NoPath == <<0>>

InitPathIdle ==
    /\ encHost = <<<<>>, <<>>>>
    /\ encPath = <<NoPath, NoPath>>
    /\ decHost = <<>>
    /\ encPc = "start"

InitPath ==
    /\ encHost \in HostStrings \X HostStrings
    /\ encPath = <<NoPath, NoPath>>
    /\ decHost = <<>>
    /\ encPc = "start"

Encode ==
    /\ encPc = "start"
    /\ encPath' = <<pathFromHost(encHost[1]), pathFromHost(encHost[2])>>
    /\ encPc' = "encoded"
    /\ UNCHANGED <<encHost, decHost, notPath>>

Decode ==
    /\ encPc = "encoded"
    /\ decHost' = hostFromPath(encPath[1])
    /\ encPc' = "decoded"
    /\ UNCHANGED <<encHost, encPath, notPath>>

NextPath == Encode \/ Decode

\* C10: for every hostname h, hostFromPath(pathFromHost(h)) = h, and two
\* hostnames with the same path are the same hostname.
C10_RoundTrip ==
    /\ encPc = "decoded" => decHost = encHost[1]
    /\ encPc # "start" /\ encPath[1] = encPath[2] => encHost[1] = encHost[2]

\* a hostname with a byte above 0x9f (both nibbles matter), encoded and decoded
C10_Witness ==
    /\ encPc = "decoded"
    /\ Len(encHost[1]) = MaxHostLen
    /\ encHost[1][1] = 175
    /\ encHost[1] # encHost[2]
    /\ decHost = encHost[1]

(***************************************************************************)
(* The periodic scan: RunForever's scan goroutine, periodicScan,           *)
(* renewCertIfNeeded, RenewCertNow and getCertAndSave, one action per      *)
(* request to the store or to a certificate source.                        *)
(***************************************************************************)
\* make(chan bool, 1000)
UpdateRequestsCap == 1000

\* the shortened sleep, in seconds
CommsRetrySleep == 15

NoEval ==
    [host |-> <<>>, at |-> 0, load |-> [err |-> "none", chc |-> NilCert],
     err |-> "", needNew |-> FALSE, source |-> "", called |-> FALSE,
     wrote |-> FALSE, done |-> TRUE]

NoCycle ==
    [fetchErr |-> "", plan |-> <<>>, seen |-> <<>>, lastErr |-> "", calls |-> 0,
     writes |-> 0]

\* the cycle has observed err
Observed(cy, err) == IF err # "" THEN [cy EXCEPT !.lastErr = err] ELSE cy

InitScan ==
    /\ cycle = NoCycle
    /\ scanPc = "start"
    /\ scanTodo = <<>>
    /\ scanDer = NoCert
    /\ retErr = ""
    /\ bootstrapped = FALSE
    /\ sleeps = 0
    /\ ev = NoEval

\* a store request: it fails with one of StoreErrors, or reaches the store
StoreOutcomes == {""} \cup StoreErrors

Load(st, path, e) == IF e = "" THEN LoadPath(st, path) ELSE [err |-> e, chc |-> NilCert]

\* the cycle goes on to the hosts after a failed FetchCerts
afterFetchError_goesOn == "eval"

\* lines 392-394: if err != nil { return err }
afterFetchError == "returned"

\* lines 391-415: FetchCerts, then the fixed hosts, then the hosts listed
ScanStart ==
    /\ running
    /\ scanPc = "start"
    /\ \/ \E e \in StoreErrors :
            /\ scanPc' = afterFetchError
            /\ retErr' = e
            /\ cycle' = [NoCycle EXCEPT !.fetchErr = e]
            /\ UNCHANGED scanTodo
       \/ \E order \in ListOrders(store) :
            LET listed == [i \in DOMAIN order |-> hostFromPath(order[i])]
                others == SelectSeq(listed, LAMBDA hn : ~isFixedHost(hn))
            IN  /\ scanTodo' = fixedHosts \o others
                /\ scanPc' = "eval"
                /\ retErr' = ""
                /\ cycle' = [NoCycle EXCEPT !.plan = fixedHosts \o others]
    /\ UNCHANGED <<sharedVars, scanDer, bootstrapped, sleeps, ev, notScan>>

\* renewCertIfNeeded returns err for the host in ev
Returned(e, err, called, wrote) ==
    [e EXCEPT !.err = err, !.called = called, !.wrote = wrote, !.done = TRUE]

\* lines 199-250: LoadPath and the decision
ScanEval ==
    /\ running
    /\ scanPc = "eval"
    /\ scanTodo # <<>>
    /\ \E e \in StoreOutcomes :
        LET hostname == Head(scanTodo)
            load == Load(store, pathFromHost(hostname), e)
            d == renewDecision(load, now)
        IN  /\ ev' = [host |-> hostname, at |-> now, load |-> load, err |-> d.err,
                      needNew |-> d.needNew, source |-> d.source,
                      called |-> FALSE, wrote |-> FALSE, done |-> ~d.needNew]
            /\ scanPc' = IF d.needNew THEN "issue" ELSE "eval"
            /\ retErr' = IF d.err # "" THEN d.err ELSE retErr
            /\ cycle' = Observed([cycle EXCEPT !.seen = Append(cycle.seen, hostname)],
                                 d.err)
    /\ scanTodo' = Tail(scanTodo)
    /\ UNCHANGED <<sharedVars, scanDer, bootstrapped, sleeps, notScan>>

\* what a source's AutoFetchCert ends in besides a certificate: an error,
\* or for an ACME source the panic of z.Challenges on a nil z
\* (packaging lines 202-204)
IssueFailures(cs) ==
    IF cs \in AcmeSources THEN {"issuance failed", "panic"} ELSE {"issuance failed"}

\* lines 322-339: the source is looked up and asked for a certificate; the
\* scan goroutine recovers no panic, so a panic ends the process
ScanIssue ==
    /\ running
    /\ scanPc = "issue"
    /\ IF ev.source \notin certFactories
       THEN /\ ev' = Returned(ev, "no cert source found", FALSE, FALSE)
            /\ retErr' = "no cert source found"
            /\ cycle' = Observed(cycle, "no cert source found")
            /\ scanPc' = "eval"
            /\ UNCHANGED <<scanDer, running>>
       ELSE \/ \E f \in IssueFailures(ev.source) :
               /\ ev' = Returned(ev, f, TRUE, FALSE)
               /\ retErr' = IF f = "panic" THEN retErr ELSE f
               /\ scanPc' = IF f = "panic" THEN "panicked" ELSE "eval"
               /\ running' = (f # "panic")
               /\ cycle' = Observed([cycle EXCEPT !.calls = cycle.calls + 1],
                                    IF f = "panic" THEN "" ELSE f)
               /\ UNCHANGED scanDer
            \/ \E v \in Validities :
               /\ scanDer' = Cert(now + v)
               /\ ev' = [ev EXCEPT !.called = TRUE]
               /\ cycle' = [cycle EXCEPT !.calls = cycle.calls + 1]
               /\ scanPc' = "save"
               /\ UNCHANGED <<retErr, running>>
    /\ UNCHANGED <<sharedVars, scanTodo, bootstrapped, sleeps, pathVars, initVars, sinkVars,
                   opVars,
                   lock, acmeKnownRegistered, challengeResponse, call, pubVars>>

\* getCertAndSave goes on to the signal after a failed save
afterSaveError_signals(back) == "signal"

\* lines 367-370: if err != nil { return err }: back to the caller
afterSaveError(back) == back

\* lines 341-370: the record is saved
ScanSave ==
    /\ running
    /\ scanPc = "save"
    /\ \/ \E e \in StoreErrors :
            /\ ev' = Returned(ev, e, TRUE, FALSE)
            /\ retErr' = e
            /\ cycle' = Observed(cycle, e)
            /\ scanPc' = afterSaveError("eval")
            /\ UNCHANGED store
       \/ /\ store' = SavePath(store, pathFromHost(ev.host),
                               issuedRecord(ev.host, ev.source, scanDer))
          /\ ev' = [ev EXCEPT !.wrote = TRUE]
          /\ cycle' = [cycle EXCEPT !.writes = cycle.writes + 1]
          /\ scanPc' = "signal"
          /\ UNCHANGED retErr
    /\ scanDer' = NoCert
    /\ UNCHANGED <<now, updateRequests, scanTodo, bootstrapped, sleeps, notScan>>

\* line 417: periodicScan returns retErr
ScanReturn ==
    /\ running
    /\ scanPc = "eval"
    /\ scanTodo = <<>>
    /\ scanPc' = "returned"
    /\ UNCHANGED <<sharedVars, scanTodo, scanDer, retErr, bootstrapped, sleeps, cycle, ev,
                   notScan>>

\* the short sleep follows every failed cycle before the first success
nextSleepSeconds_anyError(err, boot) ==
    IF err # "" /\ ~boot THEN CommsRetrySleep ELSE Period

\* lines 150-163: the seconds to sleep after periodicScan returned err
nextSleepSeconds(err, boot) ==
    IF err # "" /\ err = "comms" /\ ~boot THEN CommsRetrySleep ELSE Period

\* lines 153-166: the scan loop notes the result and sleeps, in a run of at
\* most limit iterations
Sleeping(limit) ==
    /\ running
    /\ scanPc = "returned"
    /\ sleeps < limit
    /\ now' = now + nextSleepSeconds(retErr, bootstrapped)
    /\ bootstrapped' = (bootstrapped \/ retErr = "")
    /\ sleeps' = sleeps + 1
    /\ scanPc' = "start"
    /\ UNCHANGED <<store, updateRequests, scanTodo, scanDer, retErr, cycle, ev, notScan>>

ScanSleep == Sleeping(MaxSleeps)

LoopSleep == Sleeping(MaxLoopSleeps)

(***************************************************************************)
(* Automated issuance: acmeCertSource.AutoFetchCert and the               *)
(* challenge/response map of serverResponder, one action per request to    *)
(* the CA and per deferred call.                                           *)
(***************************************************************************)
\* the goroutines that call AutoFetchCert: the scan loop, and the admin
\* server's handler under negroni's Recovery
Callers == {"scan", "admin"}

\* the challenge tokens the CAs hand out
Tokens == {"evaGxfADs6pSRb2LAv9IZf17", "LoqXcYV8q5ONbJQxbmR7SCTN"}

\* acme.Client.HTTP01ChallengePath
HTTP01ChallengePath(token) == <<"/.well-known/acme-challenge/", token>>

\* acme.Client.HTTP01ChallengeResponse: the token and the thumbprint of the
\* source's account key
HTTP01ChallengeResponse(token, source) == <<token, ".", source>>

\* the value is not stored
SetChallengeValue_dropped(cr, k, v) == cr

SetChallengeValue(cr, k, v) ==
    [q \in DOMAIN cr \cup {k} |-> IF q = k THEN v ELSE cr[q]]

ClearChallengeValue(cr, k) == [q \in DOMAIN cr \ {k} |-> cr[q]]

\* only the clear deferred last is run
deferClear_onlyLast(defers, k) == <<k>>

\* defer acs.responderServer.ClearChallengeValue(k): run last in, first out
deferClear(defers, k) == <<k>> \o defers

\* reg is what ensureRegistered did in the call: "" before it has run,
\* "skipped", or the answer of Register
NoCall ==
    [pc |-> "idle", kind |-> "", source |-> "", n |-> 0, todo |-> 0,
     defers |-> <<>>, pub |-> 0, reg |-> "", err |-> "", order |-> "",
     chal |-> "nil"]

InitAcme ==
    /\ lock = [s \in AcmeSources |-> FALSE]
    /\ acmeKnownRegistered = [s \in AcmeSources |-> FALSE]
    /\ challengeResponse = << >>
    /\ call = [c \in Callers |-> NoCall]
    /\ running = TRUE

callsMade == call["scan"].n + call["admin"].n

\* the call leaves the function body with err; its deferred calls run next
Leave(c, err) ==
    call' = [call EXCEPT ![c].pc = "unwind", ![c].err = err, ![c].todo = 0]

\* a goroutine enters a method of the source
Enter(c, kind) ==
    /\ running
    /\ call[c].pc = "idle"
    /\ callsMade < MaxCalls
    /\ \E s \in AcmeSources :
        call' = [call EXCEPT ![c] = [NoCall EXCEPT !.pc = "lock", !.kind = kind,
                                                   !.source = s,
                                                   !.n = call[c].n + 1]]
    /\ UNCHANGED <<lock, acmeKnownRegistered, challengeResponse, running, notAcme>>

\* line 179: a goroutine calls AutoFetchCert on a source
AutoFetchCert(c) == Enter(c, "auto")

\* line 94: the admin server's handler calls ManualStartChallenge
ManualStartChallenge(c) == c = "admin" /\ Enter(c, "manual")

\* line 149: the admin server's handler calls CompleteChallenge
CompleteChallenge(c) == c = "admin" /\ Enter(c, "complete")

\* Lock returns at once whoever holds the mutex
lockFree_always(s) == TRUE

\* sync.Mutex.Lock returns when no goroutine holds the source's mutex
lockFree(s) == ~lock[s]

\* lines 95, 150 and 180: acs.lock.Lock()
AcmeLock(c) ==
    /\ running
    /\ call[c].pc = "lock"
    /\ lockFree(call[c].source)
    /\ lock' = [lock EXCEPT ![call[c].source] = TRUE]
    /\ call' = [call EXCEPT ![c].pc = "register"]
    /\ UNCHANGED <<acmeKnownRegistered, challengeResponse, running, notAcme>>

\* what Register can answer
RegisterOutcomes == {"ok", "failed"}

\* the source is known registered only once Register has succeeded
knownAfterRegister_onSuccess(outcome) == outcome = "ok"

\* lines 138-142: the error of Register is logged, and acmeKnownRegistered
\* is set whatever Register answered
knownAfterRegister(outcome) == TRUE

\* the statement that follows acs.ensureRegistered(ctx) in each method
afterRegister(kind) == IF kind = "complete" THEN "accept" ELSE "order"

\* lines 128-143
ensureRegistered(c) ==
    /\ running
    /\ call[c].pc = "register"
    /\ IF acmeKnownRegistered[call[c].source]
       THEN /\ call' = [call EXCEPT ![c].pc = afterRegister(call[c].kind),
                                    ![c].reg = "skipped"]
            /\ UNCHANGED acmeKnownRegistered
       ELSE \E outcome \in RegisterOutcomes :
            /\ call' = [call EXCEPT ![c].pc = afterRegister(call[c].kind),
                                    ![c].reg = outcome]
            /\ acmeKnownRegistered' =
                   [acmeKnownRegistered EXCEPT
                       ![call[c].source] = knownAfterRegister(outcome)]
    /\ UNCHANGED <<lock, challengeResponse, running, notAcme>>

\* the status of the order AuthorizeOrder returns: two of RFC 8555's that a
\* new order has, and one that it has not
OrderStatuses == {"ready", "pending", "invalid"}

\* lines 76 and 125: newDNSChallenge reads chal.Token, which panics on the
\* nil chal of an order that is not pending or has no authorization
nilChallenge == "panic"

\* lines 99-111: AuthorizeOrder in ManualStartChallenge and the order's
\* status; the authorizations of a pending order are gone through
ManualAuthorizeOrder(c) ==
    /\ running
    /\ call[c].pc = "order"
    /\ call[c].kind = "manual"
    /\ \/ Leave(c, "AuthorizeOrder failed")
       \/ \E status \in OrderStatuses, k \in 0..MaxAuthz :
            IF status = "ready"
            THEN call' = [call EXCEPT ![c].pc = "unwind", ![c].order = status,
                                      ![c].err = "already authorized, no challenge needed"]
            ELSE call' = [call EXCEPT ![c].pc = "authz", ![c].order = status,
                                      ![c].todo = IF status = "pending" THEN k ELSE 0]
    /\ UNCHANGED <<lock, acmeKnownRegistered, challengeResponse, running, notAcme>>

\* lines 112-123: the next authorization is fetched; its dns-01 challenge,
\* when it offers one, becomes chal, and chal still nil after it is an error
ManualGetAuthorization(c) ==
    /\ running
    /\ call[c].pc = "authz"
    /\ call[c].kind = "manual"
    /\ call[c].todo > 0
    /\ \/ Leave(c, "GetAuthorization failed")
       \/ call' = [call EXCEPT ![c].todo = call[c].todo - 1, ![c].chal = "dns-01"]
       \/ IF call[c].chal = "nil"
          THEN Leave(c, "no supported challenge type found")
          ELSE call' = [call EXCEPT ![c].todo = call[c].todo - 1]
    /\ UNCHANGED <<lock, acmeKnownRegistered, challengeResponse, running, notAcme>>

\* lines 75-88 and 125
newDNSChallenge(c) ==
    /\ running
    /\ call[c].pc = "authz"
    /\ call[c].kind = "manual"
    /\ call[c].todo = 0
    /\ IF call[c].chal = "nil"
       THEN Leave(c, nilChallenge)
       ELSE \/ Leave(c, "DNS01ChallengeRecord failed")
            \/ Leave(c, "")
    /\ UNCHANGED <<lock, acmeKnownRegistered, challengeResponse, running, notAcme>>

\* a ready order is gone through like a pending one
afterOrder_readyAuthorizes(status) ==
    IF status \in {"ready", "pending"} THEN "authz" ELSE "unwind"

\* lines 198-245: where AutoFetchCert goes on the status of the new order:
\* to issueCert, to the loop over o.AuthzURLs, or out with an error
afterOrder(status) ==
    IF status = "ready" THEN "issue"
    ELSE IF status = "pending" THEN "authz"
    ELSE "unwind"

\* lines 184-198 and 243-245: AuthorizeOrder and the order's status
AuthorizeOrder(c) ==
    /\ running
    /\ call[c].pc = "order"
    /\ call[c].kind = "auto"
    /\ \/ Leave(c, "AuthorizeOrder failed")
       \/ \E status \in OrderStatuses, k \in 0..MaxAuthz :
            call' = [call EXCEPT
                        ![c].pc = afterOrder(status),
                        ![c].order = status,
                        ![c].todo = IF status = "pending" THEN k ELSE 0,
                        ![c].err = IF afterOrder(status) = "unwind"
                                   THEN "invalid new order status" ELSE ""]
    /\ UNCHANGED <<lock, acmeKnownRegistered, challengeResponse, running, notAcme>>

\* lines 202-204: the error of GetAuthorization is not looked at; z is nil
\* when the request fails, and z.Challenges panics
nilAuthorization == "panic"

\* lines 201-221: the next authorization is fetched and its http-01
\* challenge, whose token is one of toks, published
Publishing(c, toks) ==
    /\ running
    /\ call[c].pc = "authz"
    /\ call[c].kind = "auto"
    /\ call[c].todo > 0
    /\ \/ /\ Leave(c, nilAuthorization)
          /\ UNCHANGED challengeResponse
       \/ /\ Leave(c, "no supported challenge type found")
          /\ UNCHANGED challengeResponse
       \/ /\ Leave(c, "HTTP01ChallengeResponse failed")
          /\ UNCHANGED challengeResponse
       \/ \E token \in toks :
            LET k == HTTP01ChallengePath(token)
                v == HTTP01ChallengeResponse(token, call[c].source)
            IN  /\ call' = [call EXCEPT ![c].pc = "accept",
                                        ![c].defers = deferClear(call[c].defers, k),
                                        ![c].pub = call[c].pub + 1]
                /\ challengeResponse' =
                       SetChallengeValue(challengeResponse, k,
                                         [v |-> v, by |-> <<c, call[c].n>>])
    /\ UNCHANGED <<lock, acmeKnownRegistered, running, notAcme>>

\* the CAs of the two sources may hand out the same token
GetAuthorization(c) == Publishing(c, Tokens)

\* the tokens no call has published at present: a CA's token is a fresh
\* random value of at least 128 bits (RFC 8555, 8.3)
FreshTokens ==
    {token \in Tokens : HTTP01ChallengePath(token) \notin DOMAIN challengeResponse}

\* the CA hands out a token that is not in use
GetFreshAuthorization(c) == Publishing(c, FreshTokens)

\* lines 225-228, and 157-160 in CompleteChallenge
Accept(c) ==
    /\ running
    /\ call[c].pc = "accept"
    /\ \/ Leave(c, "Accept failed")
       \/ call' = [call EXCEPT ![c].pc = "wait"]
    /\ UNCHANGED <<lock, acmeKnownRegistered, challengeResponse, running, notAcme>>

\* lines 231-234, and 163-166 in CompleteChallenge, which waits for the
\* order next
WaitAuthorization(c) ==
    /\ running
    /\ call[c].pc = "wait"
    /\ \/ Leave(c, "WaitAuthorization failed")
       \/ call' = [call EXCEPT ![c].pc = "authz",
                               ![c].todo = IF call[c].kind = "complete" THEN 0
                                           ELSE call[c].todo - 1]
    /\ UNCHANGED <<lock, acmeKnownRegistered, challengeResponse, running, notAcme>>

\* lines 238-241, and 171-174 in CompleteChallenge
WaitOrder(c) ==
    /\ running
    /\ call[c].pc = "authz"
    /\ call[c].kind # "manual"
    /\ call[c].todo = 0
    /\ \/ Leave(c, "WaitOrder failed")
       \/ call' = [call EXCEPT ![c].pc = "issue"]
    /\ UNCHANGED <<lock, acmeKnownRegistered, challengeResponse, running, notAcme>>

\* lines 247-272
issueCert(c) ==
    /\ running
    /\ call[c].pc = "issue"
    /\ \/ Leave(c, "issueCert failed")
       \/ Leave(c, "")
    /\ UNCHANGED <<lock, acmeKnownRegistered, challengeResponse, running, notAcme>>

\* line 220, run when the function is left: the deferred clears
RunDeferredClear(c) ==
    /\ running
    /\ call[c].pc = "unwind"
    /\ call[c].defers # <<>>
    /\ challengeResponse' = ClearChallengeValue(challengeResponse, Head(call[c].defers))
    /\ call' = [call EXCEPT ![c].defers = Tail(call[c].defers)]
    /\ UNCHANGED <<lock, acmeKnownRegistered, running, notAcme>>

\* lines 96, 151 and 181, run last: the deferred Unlock; then the caller has the result,
\* or the panic ends the process unless the goroutine recovers it
AcmeReturn(c) ==
    /\ running
    /\ call[c].pc = "unwind"
    /\ call[c].defers = <<>>
    /\ lock' = [lock EXCEPT ![call[c].source] = FALSE]
    /\ call' = [call EXCEPT ![c].pc = "idle", ![c].err = "", ![c].pub = 0,
                             ![c].order = "", ![c].chal = "nil"]
    /\ running' = ~(call[c].err = "panic" /\ c = "scan")
    /\ UNCHANGED <<acmeKnownRegistered, challengeResponse, notAcme>>

(***************************************************************************)
(* The publish loop of RunForever and updateObservers.  Time is in        *)
(* seconds.  A send to a channel on which the loop is blocked in select    *)
(* is received by the send itself, as the Go runtime hands the value to    *)
(* the waiting goroutine; this holds for dc.updateRequests and for t.C.    *)
(***************************************************************************)
\* time.NewTimer(time.Second * 5)
InitialDelay == 5

\* t.Reset(time.Second * 30)
Debounce == 30

\* t.Reset(time.Hour * 24 * 365)
LongDelay == 31536000

\* dc.observers, in the order of registration
observers == <<"admin", "output">>

\* what FetchCerts returns for the store st
FetchCerts(st) == {st[q] : q \in DOMAIN st}

NoFanout == [certs |-> {}, calls |-> <<>>, retErr |-> "", retried |-> 0, done |-> TRUE]

NoHist ==
    [sent |-> 0, lastSig |-> -1, burst |-> 0, fanouts |-> 0, fanoutAt |-> -1,
     sigAtFire |-> -1, burstAtFire |-> 0]

InitPub ==
    /\ pubPc = "loop"
    /\ timer = [active |-> TRUE, at |-> InitialDelay]
    /\ tC = 0
    /\ fo = NoFanout
    /\ hist = NoHist

\* the timer is left as it is when it is already armed
resetOnSignal_keepsEarlier(tm, t) ==
    IF tm.active THEN tm ELSE [active |-> TRUE, at |-> t + Debounce]

\* lines 177-181: Stop, then Reset to 30 seconds from t
resetOnSignal(tm, t) == [active |-> TRUE, at |-> t + Debounce]

\* a signal is sent at time t
Sent(h, t) == [h EXCEPT !.lastSig = t, !.burst = h.burst + 1]

\* lines 174-181: the body of case <-dc.updateRequests; with the timer
\* stopped and t.C empty, <-t.C blocks
Received ==
    IF ~timer.active /\ tC = 0
    THEN /\ pubPc' = "drain"
         /\ UNCHANGED <<timer, tC>>
    ELSE /\ pubPc' = "loop"
         /\ timer' = resetOnSignal(timer, now)
         /\ tC' = 0

\* the timer that fired is re-armed as after a signal
rearmAfterFire_debounce(t) == [active |-> TRUE, at |-> t + Debounce]

\* the timer that fired is left stopped
rearmAfterFire_never(t) == [active |-> FALSE, at |-> t]

\* line 185: t.Reset(time.Hour * 24 * 365)
rearmAfterFire(t) == [active |-> TRUE, at |-> t + LongDelay]

\* lines 182-187: case <-t.C is taken; the timer is re-armed and
\* updateObservers called
Fired ==
    /\ pubPc' = "fetch"
    /\ timer' = rearmAfterFire(now)
    /\ fo' = [NoFanout EXCEPT !.done = FALSE]
    /\ hist' = [hist EXCEPT !.fanouts = hist.fanouts + 1, !.fanoutAt = now,
                            !.sigAtFire = hist.lastSig,
                            !.burstAtFire = hist.burst, !.burst = 0]

\* the channel has no buffer: a send waits for the loop to receive
canSend_unbuffered(n) == FALSE

\* a send on dc.updateRequests with n values waiting goes into the buffer
\* when there is room
canSend(n) == n < UpdateRequestsCap

\* dc.updateRequests <- true: the value is handed to the loop blocked in
\* select, or goes into the buffer; the send waits when neither can be
SendSignal ==
    /\ IF pubPc = "select"
       THEN /\ Received
            /\ UNCHANGED updateRequests
       ELSE /\ canSend(updateRequests)
            /\ updateRequests' = updateRequests + 1
            /\ UNCHANGED <<pubPc, timer, tC>>
    /\ UNCHANGED fo

\* line 372: the scan's getCertAndSave signals the publish loop and returns
ScanSignal ==
    /\ running
    /\ scanPc = "signal"
    /\ SendSignal
    /\ hist' = Sent(hist, now)
    /\ ev' = Returned(ev, "", TRUE, TRUE)
    /\ scanPc' = "eval"
    /\ UNCHANGED <<store, now, scanTodo, scanDer, retErr, bootstrapped, sleeps, cycle,
                   pathVars, initVars, sinkVars, opVars, acmeVars>>

\* daemon.go lines 367-372: a getCertAndSave of another goroutine saves a
\* certificate and signals
Persist ==
    /\ hist.sent < MaxSignals
    /\ store' = SavePath(store, pathFromHost(UserHN),
                         issuedRecord(UserHN, "le-prod", Cert(now + Day)))
    /\ SendSignal
    /\ hist' = [Sent(hist, now) EXCEPT !.sent = hist.sent + 1]
    /\ UNCHANGED <<now, notPub>>

\* the runtime's timer fires: a value is sent on t.C, which holds one
TimerExpire ==
    /\ timer.active
    /\ timer.at <= now
    /\ IF pubPc = "select"
       THEN /\ Fired
            /\ UNCHANGED tC
       ELSE /\ timer' = [timer EXCEPT !.active = FALSE]
            /\ tC' = 1
            /\ UNCHANGED <<pubPc, fo, hist>>
    /\ UNCHANGED <<sharedVars, notPub>>

\* lines 172-173: select takes a case that is ready, or blocks
PubSelect ==
    /\ pubPc = "loop"
    /\ \/ /\ updateRequests > 0
          /\ updateRequests' = updateRequests - 1
          /\ Received
          /\ UNCHANGED <<fo, hist>>
       \/ /\ tC > 0
          /\ tC' = 0
          /\ Fired
          /\ UNCHANGED updateRequests
       \/ /\ updateRequests = 0
          /\ tC = 0
          /\ pubPc' = "select"
          /\ UNCHANGED <<updateRequests, timer, tC, fo, hist>>
    /\ UNCHANGED <<store, now, notPub>>

\* lines 130-133: FetchCerts
PubFetch ==
    /\ pubPc = "fetch"
    /\ \/ \E e \in StoreErrors :
            /\ fo' = [fo EXCEPT !.retErr = e]
            /\ pubPc' = "returned"
       \/ /\ fo' = [fo EXCEPT !.certs = FetchCerts(store)]
          /\ pubPc' = "observe"
    /\ UNCHANGED <<sharedVars, timer, tC, hist, notPub>>

\* the loop ends at the first observer that fails
observersLeft_stopOnError(calls) ==
    Len(calls) < Len(observers) /\ \A i \in DOMAIN calls : calls[i].err = ""

\* line 135: the range over dc.observers has observers left
observersLeft(calls) == Len(calls) < Len(observers)

\* lines 135-141: the next observer is given certs
PubObserve ==
    /\ pubPc = "observe"
    /\ observersLeft(fo.calls)
    /\ \E err \in {"", "observer failed"} :
        fo' = [fo EXCEPT !.calls = Append(fo.calls,
                                          [ob |-> observers[Len(fo.calls) + 1],
                                           certs |-> fo.certs, err |-> err]),
                         !.retErr = IF err # "" THEN err ELSE fo.retErr]
    /\ UNCHANGED <<sharedVars, pubPc, timer, tC, hist, notPub>>

\* line 142: updateObservers returns retErr
PubReturn ==
    /\ pubPc = "observe"
    /\ ~observersLeft(fo.calls)
    /\ pubPc' = "returned"
    /\ UNCHANGED <<sharedVars, timer, tC, fo, hist, notPub>>

\* no fan-out is taken to need a retry
needsRetry_never(err) == FALSE

\* lines 187-193: err == nil is logged, any other err is followed by a signal
needsRetry(err) == err # ""

\* lines 188-194: on an error the loop signals itself
PubRetry ==
    /\ pubPc = "returned"
    /\ IF ~needsRetry(fo.retErr)
       THEN /\ fo' = [fo EXCEPT !.done = TRUE]
            /\ UNCHANGED <<updateRequests, hist>>
       ELSE /\ canSend(updateRequests)
            /\ updateRequests' = updateRequests + 1
            /\ fo' = [fo EXCEPT !.done = TRUE, !.retried = fo.retried + 1]
            /\ hist' = Sent(hist, now)
    /\ pubPc' = "loop"
    /\ UNCHANGED <<store, now, timer, tC, notPub>>

\* the seconds by which the clock is seen to advance
TickSteps == {10, 30}

\* time passes while the loop is blocked in select or waits for the store or
\* an observer, up to the instant the timer is due
Tick ==
    /\ pubPc \in {"select", "drain", "fetch", "observe"}
    /\ ~(timer.active /\ timer.at <= now)
    /\ \E d \in TickSteps :
        /\ now' = IF timer.active /\ timer.at < now + d THEN timer.at ELSE now + d
        /\ now' <= MaxTime
    /\ UNCHANGED <<store, updateRequests, pubVars, notPub>>

(***************************************************************************)
(* The admin server's update handler (adminServer.update) and the daemon   *)
(* operations it calls, one action per request to the store or a source.   *)
(***************************************************************************)
NoOp == [action |-> "", host |-> <<>>, source |-> "", chc |-> NilCert, der |-> NoCert]

NoLastOp ==
    [action |-> "", host |-> <<>>, flash |-> ""]

InitOp ==
    /\ opPc = "idle"
    /\ op = NoOp
    /\ lastOp = NoLastOp
    /\ requests = 0

\* the hex digits a-f of a path in upper case
UpperHex(path) ==
    [i \in DOMAIN path |->
        IF i > Len(CertsPrefix) /\ path[i] >= 97 /\ path[i] <= 102
        THEN path[i] - 32 ELSE path[i]]

StorePaths == {pathFromHost(hn) : hn \in Hosts}

\* a store request of the admin server: it fails, or reaches the store
FormOutcomes == {"", "comms"}

\* the "host" form value: empty, or a hostname
FormHosts == {<<>>, ourHN, UserHN}

\* the "source" form value: empty, a configured source, or any other name
FormSources == {"", "le-prod", "other-ca"}

\* the "path" form value: a path the home page links to, the same in upper
\* case hex, "/certs/zz", and "/"
FormPaths ==
    StorePaths \cup {UpperHex(pathFromHost(ourHN)), CertsPrefix \o <<122, 122>>, <<47>>}

\* the handler is done: it redirects to the home page
Served(action, hostname, flash) ==
    /\ lastOp' = [action |-> action, host |-> hostname, flash |-> flash]
    /\ opPc' = "idle"
    /\ op' = NoOp
    /\ requests' = requests + 1

Begin(pc, action, hostname, source, chc) ==
    /\ opPc' = pc
    /\ op' = [action |-> action, host |-> hostname, source |-> source, chc |-> chc,
              der |-> NoCert]
    /\ UNCHANGED <<lastOp, requests>>

\* part_001 lines 160-179: create, up to the save
OpCreate ==
    /\ running
    /\ opPc = "idle"
    /\ requests < MaxRequests
    /\ \E hostname \in FormHosts, source \in FormSources, e \in FormOutcomes :
        LET path == pathFromHost(hostname)
            load == Load(store, path, e)
        IN  IF Len(hostname) = 0
            THEN Served("create", hostname, "empty hostname")
            ELSE IF load.err = ""
            THEN Served("create", hostname, "already managed")
            ELSE IF source = ""
            THEN Served("create", hostname, "empty source")
            ELSE Begin("createSave", "create", hostname, source, NilCert)
    /\ UNCHANGED <<sharedVars, notOp>>

\* part_001 lines 181-187
OpCreateSave ==
    /\ running
    /\ opPc = "createSave"
    /\ \E e \in FormOutcomes :
        LET path == pathFromHost(op.host)
            after == IF e = "" THEN SavePath(store, path, createdRecord(op.source))
                     ELSE store
        IN  /\ store' = after
            /\ Served("create", op.host, e)
    /\ UNCHANGED <<now, updateRequests, notOp>>

\* a fixed host is deleted like any other
deleteAllowed_always(hostname) == TRUE

\* part_001 line 196
deleteAllowed(hostname) == CanDelete(hostname)

\* part_001 lines 189-208: delete
OpDelete ==
    /\ running
    /\ opPc = "idle"
    /\ requests < MaxRequests
    /\ \E path \in FormPaths, e \in FormOutcomes :
        LET hostname == hostFromPath(path)
            target == pathFromHost(hostname)
        IN  IF hostname = <<>>
            THEN /\ Served("delete", hostname, "cannot find cert")
                 /\ UNCHANGED store
            ELSE IF ~deleteAllowed(hostname)
            THEN /\ Served("delete", hostname,
                           "not allowed to delete cert for this server")
                 /\ UNCHANGED store
            ELSE IF e # "" \/ target \notin DOMAIN store
            THEN /\ Served("delete", hostname,
                           IF e # "" THEN e ELSE "notfound")
                 /\ UNCHANGED store
            ELSE /\ store' = DeletePath(store, target)
                 /\ Served("delete", hostname, "cert successfully deleted")
    /\ UNCHANGED <<now, updateRequests, notOp>>

\* part_001 lines 263-282: source, up to the save
OpSource ==
    /\ running
    /\ opPc = "idle"
    /\ requests < MaxRequests
    /\ \E hostname \in FormHosts, source \in FormSources, e \in FormOutcomes :
        LET path == pathFromHost(hostname)
            load == Load(store, path, e)
        IN  IF Len(hostname) = 0
            THEN Served("source", hostname, "empty hostname")
            ELSE IF load.err # ""
            THEN Served("source", hostname, load.err)
            ELSE IF source = ""
            THEN Served("source", hostname, "empty source")
            ELSE Begin("sourceSave", "source", hostname, source, load.chc)
    /\ UNCHANGED <<sharedVars, notOp>>

\* part_001 lines 284-290
OpSourceSave ==
    /\ running
    /\ opPc = "sourceSave"
    /\ \E e \in FormOutcomes :
        LET path == pathFromHost(op.host)
            after == IF e = "" THEN SavePath(store, path, [op.chc EXCEPT !.Source = op.source])
                     ELSE store
        IN  /\ store' = after
            /\ Served("source", op.host, e)
    /\ UNCHANGED <<now, updateRequests, notOp>>

\* part_001 lines 210-222: auto, up to RenewCertNow; chd is nil after a
\* failed load and chd.Source then ends the request in a recovered panic
OpAuto ==
    /\ running
    /\ opPc = "idle"
    /\ requests < MaxRequests
    /\ \E path \in FormPaths, e \in FormOutcomes :
        LET hostname == hostFromPath(path)
            load == Load(store, pathFromHost(hostname), e)
        IN  IF hostname = <<>>
            THEN Served("auto", hostname, "cannot find cert")
            ELSE IF load.err # ""
            THEN Served("auto", hostname, load.err)
            ELSE Begin("issue", "auto", hostname, load.chc.Source, load.chc)
    /\ UNCHANGED <<sharedVars, notOp>>

\* part_001 lines 231-238 and daemon.go lines 277-290: manual, up to the
\* source's ManualStartChallenge
OpManual ==
    /\ running
    /\ opPc = "idle"
    /\ requests < MaxRequests
    /\ \E path \in FormPaths, e \in FormOutcomes :
        LET hostname == hostFromPath(path)
            load == Load(store, pathFromHost(hostname), e)
        IN  IF hostname = <<>>
            THEN Served("manual", hostname, "cannot find cert")
            ELSE IF load.err # ""
            THEN Served("manual", hostname, load.err)
            ELSE IF load.chc.Source \notin certFactories
            THEN Served("manual", hostname, "no cert source found")
            ELSE Begin("manualCall", "manual", hostname, load.chc.Source, load.chc)
    /\ UNCHANGED <<sharedVars, notOp>>

\* the self-signed source never supports manual mode: its
\* ManualStartChallenge returns an error
selfSignedManualStart == {"manual challenge not supported"}

\* what ManualStartChallenge ends in: "" for a challenge, an error, or for an
\* ACME source the panic of newDNSChallenge on a nil challenge (packaging
\* lines 102-125: an order neither ready nor pending, or with no
\* authorization)
ManualStartOutcomes(cs) ==
    IF cs \in AcmeSources THEN {"", "challenge failed", "panic"}
    ELSE selfSignedManualStart

\* the challenge is put into a record that holds the source and nothing else
withChallenge_fresh(curCert, chal) ==
    [createdRecord(curCert.Source) EXCEPT !.Challenge = chal]

\* daemon.go line 297: curCert.Challenge = chal
withChallenge(curCert, chal) == [curCert EXCEPT !.Challenge = chal]

\* daemon.go lines 292-297: the source starts a challenge or fails
OpManualCall ==
    /\ running
    /\ opPc = "manualCall"
    /\ \E o \in ManualStartOutcomes(op.source) :
        IF o # ""
        THEN Served("manual", op.host, o)
        ELSE /\ opPc' = "manualSave"
             /\ op' = [op EXCEPT !.chc = withChallenge(op.chc, "dns-01")]
             /\ UNCHANGED <<lastOp, requests>>
    /\ UNCHANGED <<sharedVars, notOp>>

\* daemon.go lines 299-304: the record loaded is saved with the challenge
OpManualSave ==
    /\ running
    /\ opPc = "manualSave"
    /\ \E e \in FormOutcomes :
        LET path == pathFromHost(op.host)
            after == IF e = "" THEN SavePath(store, path, op.chc) ELSE store
        IN  /\ store' = after
            /\ Served("manual", op.host,
                      IF e = "" THEN "cert challenge started" ELSE e)
    /\ UNCHANGED <<now, updateRequests, notOp>>

\* any record is taken to hold a challenge
challengeSet_always(chd) == TRUE

\* daemon.go line 313: chd.Challenge is not nil
challengeSet(chd) == chd.Challenge # NoChallenge

\* part_001 lines 247-254 and daemon.go lines 307-319: complete, up to
\* getCertAndSave
OpComplete ==
    /\ running
    /\ opPc = "idle"
    /\ requests < MaxRequests
    /\ \E path \in FormPaths, e \in FormOutcomes :
        LET hostname == hostFromPath(path)
            load == Load(store, pathFromHost(hostname), e)
        IN  IF hostname = <<>>
            THEN Served("complete", hostname, "cannot find cert")
            ELSE IF load.err # ""
            THEN Served("complete", hostname, load.err)
            ELSE IF ~challengeSet(load.chc)
            THEN Served("complete", hostname, "challenge not set")
            ELSE Begin("issue", "complete", hostname, load.chc.Source, load.chc)
    /\ UNCHANGED <<sharedVars, notOp>>

\* daemon.go lines 322-339, called for auto and complete; a panic of the
\* source is recovered by the server's Recovery middleware
OpIssue ==
    /\ running
    /\ opPc = "issue"
    /\ IF op.source \notin certFactories
       THEN Served(op.action, op.host, "no cert source found")
       ELSE \/ \E f \in (IF op.action = "auto" THEN IssueFailures(op.source)
                            ELSE {"issuance failed"}) :
                    Served(op.action, op.host, f)
            \/ \E v \in Validities :
               /\ op' = [op EXCEPT !.der = Cert(now + v)]
               /\ opPc' = "save"
               /\ UNCHANGED <<lastOp, requests>>
    /\ UNCHANGED <<sharedVars, notOp>>

\* daemon.go lines 341-370, called for auto and complete
OpSave ==
    /\ running
    /\ opPc = "save"
    /\ LET path == pathFromHost(op.host)
       IN  \/ \E e \in {"comms"} :
                /\ Served(op.action, op.host, e)
                /\ UNCHANGED store
           \/ /\ store' = SavePath(store, path, issuedRecord(op.host, op.source, op.der))
              /\ opPc' = "signal"
              /\ UNCHANGED <<op, lastOp, requests>>
    /\ UNCHANGED <<now, updateRequests, notOp>>

\* daemon.go line 372 and part_001 lines 224-229, 256-261: the handler's
\* getCertAndSave signals the publish loop and the request is answered
OpSignal ==
    /\ running
    /\ opPc = "signal"
    /\ SendSignal
    /\ hist' = Sent(hist, now)
    /\ Served(op.action, op.host,
              IF op.action = "auto" THEN "cert successfully renewed" ELSE "cert issued")
    /\ UNCHANGED <<store, now, pathVars, initVars, sinkVars, scanVars, acmeVars>>

(***************************************************************************)
(* The daemon from a first start on an empty store: the scan loop and the  *)
(* admin server's requests, interleaved.                                   *)
(***************************************************************************)
Init ==
    /\ InitPathIdle
    /\ InitScan
    /\ InitOp
    /\ InitAcme
    /\ InitStarted
    /\ InitSink
    /\ InitPub
    /\ store = << >>
    /\ now = 0
    /\ updateRequests = 0

Next ==
    \/ ScanStart \/ ScanEval \/ ScanIssue \/ ScanSave \/ ScanSignal \/ ScanReturn
    \/ ScanSleep
    \/ OpCreate \/ OpCreateSave \/ OpDelete \/ OpSource \/ OpSourceSave
    \/ OpAuto \/ OpManual \/ OpManualCall \/ OpManualSave \/ OpComplete
    \/ OpIssue \/ OpSave \/ OpSignal

Spec == Init /\ [][Next]_vars

\* C9: after any sequence of scans and requests, a delete request for a
\* fixed host (proxy-bootstrap or the daemon's own hostname) is answered
\* "not allowed to delete cert for this server" and leaves the store as it
\* was; a delete request for any other host that has a record removes that
\* record and no other, provided the store carries the request out; and
\* CanDelete(h) is true exactly for the hosts h that are not fixed.
C9_DeletionRule ==
    [][(requests' = requests + 1 /\ lastOp'.action = "delete") =>
        LET h == lastOp'.host
            p == pathFromHost(h)
        IN  /\ h \in {BootstrapHN, ourHN} =>
                /\ lastOp'.flash = "not allowed to delete cert for this server"
                /\ store' = store
            /\ (h \notin {<<>>, BootstrapHN, ourHN} /\ p \in DOMAIN store
                    /\ lastOp'.flash \notin StoreErrors) =>
                /\ lastOp'.flash = "cert successfully deleted"
                /\ DOMAIN store' = DOMAIN store \ {p}
                /\ \A q \in DOMAIN store' : store'[q] = store[q]
            /\ \A hn \in Hosts \cup HostStrings :
                CanDelete(hn) <=> hn \notin {BootstrapHN, ourHN}]_vars

\* the record of a host that is not fixed has been deleted while the fixed
\* hosts have theirs
C9_Witness ==
    /\ lastOp.action = "delete"
    /\ lastOp.host = UserHN
    /\ lastOp.flash = "cert successfully deleted"
    /\ pathFromHost(UserHN) \notin DOMAIN store
    /\ pathFromHost(BootstrapHN) \in DOMAIN store

\* a delete request for the daemon's own hostname has been rejected while the
\* host has a record
C9_RejectedReached ==
    /\ lastOp.action = "delete"
    /\ lastOp.host = ourHN
    /\ lastOp.flash = "not allowed to delete cert for this server"
    /\ pathFromHost(ourHN) \in DOMAIN store

\* C11: a failure at one host never aborts the scan: the scan task keeps
\* running, and a cycle that fetched the certificate set returns only after
\* every fixed host and every host fetched has been evaluated, with the
\* last error observed.
C11_ScanNeverAborts ==
    /\ running
    /\ scanPc # "panicked"
    /\ (scanPc = "returned" /\ cycle.fetchErr = "") =>
            /\ cycle.seen = cycle.plan
            /\ retErr = cycle.lastErr

\* the scan has asked an ACME source for a certificate, the source has
\* panicked, and hosts of the cycle are left without evaluation
C11_PanicReached ==
    /\ ~running
    /\ scanPc = "panicked"
    /\ ev.source \in AcmeSources
    /\ Len(cycle.seen) < Len(cycle.plan)

\* C18: a cycle whose FetchCerts failed has returned that error with no host
\* evaluated, no certificate source called and no store write made; the
\* process runs on, and the scan loop's sleep and next cycle follow.
C18_FetchFailureAbortsCycle ==
    cycle.fetchErr # "" =>
        /\ scanPc \in {"returned", "start"}
        /\ retErr = cycle.fetchErr
        /\ cycle.plan = <<>>
        /\ cycle.seen = <<>>
        /\ cycle.calls = 0
        /\ cycle.writes = 0
        /\ scanTodo = <<>>
        /\ running
        /\ (scanPc = "returned" /\ sleeps < MaxSleeps) => ENABLED ScanSleep

\* the second cycle's FetchCerts failed after a first cycle that issued
\* certificates, and the store is as that first cycle left it
C18_Witness ==
    /\ cycle.fetchErr # ""
    /\ scanPc = "returned"
    /\ sleeps = 1
    /\ bootstrapped
    /\ pathFromHost(ourHN) \in DOMAIN store

\* C13: under every interleaving of the scan with the operator's requests,
\* the scan's getCertAndSave never writes over a stored record whose pending
\* challenge is set at the moment of the write.
C13_ScanNeverOverwritesChallenge ==
    [][(scanPc = "save" /\ scanPc' = "signal") =>
        LET p == pathFromHost(ev.host)
        IN  ~(p \in DOMAIN store /\ store[p].Challenge # NoChallenge)]_vars

\* the scan loaded a record with no challenge, the operator's manual
\* challenge for that host was started and saved, and the scan's write has
\* since replaced the record
C13_OverwriteReached ==
    /\ scanPc = "signal"
    /\ ev.wrote
    /\ ev.load.err = ""
    /\ ev.load.chc.Challenge = NoChallenge
    /\ ev.source \in AcmeSources
    /\ lastOp.action = "manual"
    /\ lastOp.host = ev.host
    /\ lastOp.flash = "cert challenge started"
    /\ store[pathFromHost(ev.host)].Challenge = NoChallenge

(***************************************************************************)
(* The scan and the operator's requests on a host that is already stored   *)
(* with an ACME source: one scan cycle against manual challenges, their    *)
(* completion, renewals on request and changes of source.                  *)
(***************************************************************************)
\* the stored certificate is inside the renewal window, or far from it
ManualLeft == {20 * Day, 90 * Day}

ManualRecords ==
    {[Source |-> "le-prod", Type |-> "user", CA |-> "roots",
      Certificate |-> Cert(100 * Day + l), PrivateKey |-> "key",
      Challenge |-> ch] : l \in ManualLeft, ch \in {NoChallenge, "dns-01"}}

InitManual ==
    /\ InitPathIdle
    /\ InitScan
    /\ InitOp
    /\ InitAcme
    /\ InitStarted
    /\ InitSink
    /\ InitPub
    /\ \E rec \in ManualRecords :
          store = SavePath(<< >>, pathFromHost(UserHN), rec)
    /\ now = 100 * Day
    /\ updateRequests = 0

NextManual ==
    \/ ScanStart \/ ScanEval \/ ScanIssue \/ ScanSave \/ ScanSignal \/ ScanReturn
    \/ OpSource \/ OpSourceSave
    \/ OpAuto \/ OpManual \/ OpManualCall \/ OpManualSave \/ OpComplete
    \/ OpIssue \/ OpSave \/ OpSignal

SpecManual == InitManual /\ [][NextManual]_vars

\* C16: a pending challenge enters a stored record only by the save of a
\* StartManualChallenge for that host, and a persisted issuance for a host
\* leaves its record without one; so a challenge in the store was started
\* and no issuance has been persisted since, whatever the interleaving.
C16_ChallengeOnlyWhileStarted ==
    [][store' # store =>
        /\ \A p \in DOMAIN store' :
              store'[p].Challenge # NoChallenge =>
                 \/ p \in DOMAIN store /\ store[p].Challenge # NoChallenge
                 \/ opPc = "manualSave" /\ p = pathFromHost(op.host)
        /\ (scanPc = "save" /\ scanPc' = "signal") =>
              store'[pathFromHost(ev.host)].Challenge = NoChallenge
        /\ (opPc = "save" /\ opPc' = "signal") =>
              store'[pathFromHost(op.host)].Challenge = NoChallenge]_vars

\* a step of the handler of a "complete" request
CompleteStep ==
    /\ (opPc' # opPc \/ requests' # requests)
    /\ (op.action = "complete" \/ op'.action = "complete"
            \/ (opPc = "idle" /\ requests' # requests /\ lastOp'.action = "complete"))

\* C20: a complete request for a record without a pending challenge is
\* answered with an error in the step that loaded it, with no source called,
\* the store not written and no signal sent; one for a record with a
\* challenge goes to the record's source with the record loaded; a failure
\* of the source, or a source that is not configured, ends the request with
\* the store as it is; a certificate is saved as the record an automatic
\* renewal saves (no challenge, the same source), and one signal is sent
\* before the request is answered "cert issued".
C20_CompleteChallenge ==
    [][CompleteStep =>
        /\ (opPc = "idle" /\ opPc' = "idle") =>
                /\ store' = store
                /\ hist' = hist
                /\ updateRequests' = updateRequests
                /\ lastOp'.flash # "cert issued"
        /\ (opPc = "idle" /\ opPc' = "idle" /\ lastOp'.flash = "challenge not set") =>
                store[pathFromHost(lastOp'.host)].Challenge = NoChallenge
        /\ (opPc = "idle" /\ opPc' # "idle") =>
                LET p == pathFromHost(op'.host)
                IN  /\ opPc' = "issue"
                    /\ p \in DOMAIN store
                    /\ store[p].Challenge # NoChallenge
                    /\ op'.chc = store[p]
                    /\ op'.source = store[p].Source
                    /\ store' = store
                    /\ hist' = hist
        /\ opPc = "issue" =>
                /\ store' = store
                /\ hist' = hist
                /\ opPc' \in {"idle", "save"}
                /\ opPc' = "idle" =>
                        lastOp'.flash \in {"issuance failed", "no cert source found"}
                /\ opPc' = "save" => op.source \in certFactories
        /\ opPc = "save" =>
                LET p == pathFromHost(op.host)
                IN  /\ hist' = hist
                    /\ \/ opPc' = "idle" /\ store' = store /\ lastOp'.flash = "comms"
                       \/ /\ opPc' = "signal"
                          /\ store' = SavePath(store, p, store'[p])
                          /\ store'[p].Challenge = NoChallenge
                          /\ store'[p].Source = op.source
                          /\ store'[p].Certificate = op.der
                          /\ store'[p] = issuedRecord(op.host, op.source, op.der)
        /\ opPc = "signal" =>
                /\ store' = store
                /\ hist'.burst = hist.burst + 1
                /\ opPc' = "idle"
                /\ lastOp'.flash = "cert issued"]_vars

\* a complete request on a record with a pending challenge has been answered
\* "cert issued": the record holds the certificate and no challenge, and the
\* signal is sent
C20_Witness ==
    /\ lastOp.action = "complete"
    /\ lastOp.flash = "cert issued"
    /\ opPc = "idle"
    /\ store[pathFromHost(lastOp.host)].Challenge = NoChallenge
    /\ store[pathFromHost(lastOp.host)].Certificate = Cert(now + Day)
    /\ hist.burst = 1

\* a complete request on a record with a pending challenge has been answered
\* with the failure of the source, and the challenge is still stored
C20_FailureReached ==
    /\ lastOp.action = "complete"
    /\ lastOp.flash = "issuance failed"
    /\ store[pathFromHost(lastOp.host)].Challenge # NoChallenge

\* a step of getCertAndSave, called by the scan or by the admin server, that
\* makes it return an error (or panic): the source is unknown, the source
\* failed, or SavePath failed
ScanCallFails == scanPc \in {"issue", "save"} /\ ev' # ev /\ ev'.err # ""

OpCallFails == opPc \in {"issue", "save"} /\ opPc' = "idle"

\* C25: a step in which getCertAndSave fails, for an unknown source, a
\* failed issuance or a failed save, ends the call and leaves every stored
\* record, the signal channel and the publish loop's timer as they were;
\* the call signals only when it has not failed and has written.
C25_FailureConfined ==
    [][/\ ScanCallFails =>
            /\ store' = store /\ updateRequests' = updateRequests
            /\ hist' = hist /\ timer' = timer /\ pubPc' = pubPc
            /\ ev'.done /\ ~ev'.wrote
            /\ scanPc' \in {"eval", "panicked"}
       /\ OpCallFails =>
            /\ store' = store /\ updateRequests' = updateRequests
            /\ hist' = hist /\ timer' = timer /\ pubPc' = pubPc
            /\ lastOp'.flash \notin {"cert successfully renewed", "cert issued"}
       /\ (scanPc = "signal" /\ scanPc' # "signal") => (ev.wrote /\ ev.err = "")
       /\ (updateRequests' # updateRequests \/ hist' # hist) =>
            \/ scanPc = "signal" /\ scanPc' # "signal"
            \/ opPc = "signal" /\ opPc' # "signal"]_vars

\* the scan's renewal of a stored host failed at the save: the record it
\* loaded is still the one stored and no signal was sent
C25_Witness ==
    /\ ev.done
    /\ ev.called
    /\ ev.err \in StoreErrors
    /\ ev.load.err = ""
    /\ pathFromHost(ev.host) \in DOMAIN store
    /\ store[pathFromHost(ev.host)] = ev.load.chc
    /\ hist.lastSig = -1
    /\ updateRequests = 0

\* the operator's completion of a challenge failed at the source
C25_CompleteFailureReached ==
    /\ lastOp.action = "complete"
    /\ lastOp.flash = "issuance failed"
    /\ store[pathFromHost(lastOp.host)].Challenge # NoChallenge
    /\ updateRequests = 0

(***************************************************************************)
(* The scan and the operator's requests on a host the operator has         *)
(* created: its record holds a source and nothing else, or the challenge   *)
(* of a manual start as well.                                              *)
(***************************************************************************)
CreatedRecords ==
    {[createdRecord("le-prod") EXCEPT !.Challenge = ch] : ch \in {NoChallenge, "dns-01"}}

InitIssue ==
    /\ InitPathIdle
    /\ InitScan
    /\ InitOp
    /\ InitAcme
    /\ InitStarted
    /\ InitSink
    /\ InitPub
    /\ \E rec \in CreatedRecords :
          store = SavePath(<< >>, pathFromHost(UserHN), rec)
    /\ now = 100 * Day
    /\ updateRequests = 0

SpecIssue == InitIssue /\ [][NextManual]_vars

\* the store after a write of rec at path p, every other record as before
Overwritten(p, rec) ==
    /\ DOMAIN store' = DOMAIN store \cup {p}
    /\ store'[p] = rec
    /\ \A q \in DOMAIN store \ {p} : store'[q] = store[q]

\* the fields getCertAndSave sets from an issuance by source cs that
\* returned der
Issued(rec, cs, der) ==
    /\ rec.Certificate = der
    /\ rec.PrivateKey = "key"
    /\ rec.CA = "roots"
    /\ rec.Source = cs
    /\ rec.Challenge = NoChallenge

\* C26: the save of a getCertAndSave that succeeds, called by the scan or
\* for the operator's renew or complete request, replaces the host's record
\* by one that holds the certificate issued, the key generated, the chain
\* and the source used, and no pending challenge, and leaves the other
\* records alone; the call sends its signal in a later step, one signal, and
\* a signal is sent by no call that has not saved.
C26_IssuedRecordSaved ==
    [][/\ (scanPc = "save" /\ scanPc' = "signal") =>
            /\ Overwritten(pathFromHost(ev.host), store'[pathFromHost(ev.host)])
            /\ Issued(store'[pathFromHost(ev.host)], ev.source, scanDer)
            /\ updateRequests' = updateRequests /\ hist' = hist
       /\ (opPc = "save" /\ opPc' = "signal") =>
            /\ Overwritten(pathFromHost(op.host), store'[pathFromHost(op.host)])
            /\ Issued(store'[pathFromHost(op.host)], op.source, op.der)
            /\ updateRequests' = updateRequests /\ hist' = hist
       /\ (scanPc' = "signal" /\ scanPc # "signal") => (scanPc = "save" /\ ev'.wrote)
       /\ (opPc' = "signal" /\ opPc # "signal") => opPc = "save"
       /\ (scanPc = "signal" /\ scanPc' # "signal") =>
            /\ updateRequests' = updateRequests + 1
            /\ hist'.burst = hist.burst + 1
            /\ store' = store
            /\ scanPc' = "eval" /\ ev'.done /\ ev'.err = ""
       /\ (opPc = "signal" /\ opPc' # "signal") =>
            /\ updateRequests' = updateRequests + 1
            /\ hist'.burst = hist.burst + 1
            /\ store' = store
            /\ opPc' = "idle"
            /\ lastOp'.flash \in {"cert successfully renewed", "cert issued"}
       /\ updateRequests' \in {updateRequests, updateRequests + 1}]_vars

\* the operator completed the challenge of a created host: the record, which
\* held a source and the challenge only, holds the issued certificate, the
\* key and the chain and no challenge, and one signal was sent
C26_Witness ==
    /\ lastOp.action = "complete"
    /\ lastOp.flash = "cert issued"
    /\ requests = 1
    /\ store[pathFromHost(UserHN)].Certificate = Cert(100 * Day + Day)
    /\ store[pathFromHost(UserHN)].PrivateKey = "key"
    /\ store[pathFromHost(UserHN)].CA = "roots"
    /\ store[pathFromHost(UserHN)].Source = "le-prod"
    /\ store[pathFromHost(UserHN)].Challenge = NoChallenge
    /\ cycle.writes = 0
    /\ updateRequests = 1

\* the operator's renew request on a created host was answered likewise
C26_RenewedReached ==
    /\ lastOp.action = "auto"
    /\ lastOp.flash = "cert successfully renewed"
    /\ requests = 1
    /\ store[pathFromHost(UserHN)].PrivateKey = "key"
    /\ cycle.writes = 0
    /\ updateRequests = 1

\* C27: a record saved by getCertAndSave has Type "admin" when its host is
\* 'proxy-bootstrap' or the daemon's own hostname and "user" for any other
\* host, whoever called.
C27_RecordType ==
    [][/\ (scanPc = "save" /\ scanPc' = "signal") =>
            store'[pathFromHost(ev.host)].Type =
                IF ev.host \in {BootstrapHN, ourHN} THEN "admin" ELSE "user"
       /\ (opPc = "save" /\ opPc' = "signal") =>
            store'[pathFromHost(op.host)].Type =
                IF op.host \in {BootstrapHN, ourHN} THEN "admin" ELSE "user"]_vars

\* the scan has issued for both fixed hosts and the operator has renewed the
\* created host and the daemon's own: admin, admin and user
C27_Witness ==
    /\ pathFromHost(BootstrapHN) \in DOMAIN store
    /\ pathFromHost(ourHN) \in DOMAIN store
    /\ store[pathFromHost(BootstrapHN)].Type = "admin"
    /\ store[pathFromHost(ourHN)].Type = "admin"
    /\ store[pathFromHost(UserHN)].Type = "user"
    /\ lastOp.action = "auto"
    /\ lastOp.host = ourHN
    /\ lastOp.flash = "cert successfully renewed"
    /\ requests = 2

\* a request for a manual challenge is answered without a call of the source
ManualRefused ==
    opPc = "idle" /\ opPc' = "idle" /\ requests' # requests /\ lastOp'.action = "manual"

\* C28: StartManualChallenge calls the source only for a record it could
\* load and whose source is registered; when the source returns a challenge
\* and the save succeeds, the record stored is the one loaded with its
\* Challenge replaced by the one returned and every other field as loaded,
\* the other records are untouched and no signal is sent; when the record
\* cannot be loaded (not found included), its source is not registered, the
\* source fails or the save fails, the request is answered with the error
\* and the store is as it was, no record created.
C28_StartManualChallenge ==
    [][/\ ManualRefused =>
            /\ store' = store /\ updateRequests' = updateRequests /\ hist' = hist
            /\ lastOp'.flash # "cert challenge started"
            /\ LET p == pathFromHost(lastOp'.host)
               IN  (p \in DOMAIN store /\ store[p].Source \in certFactories) =>
                        lastOp'.flash \in StoreErrors
       /\ (opPc = "idle" /\ opPc' = "manualCall") =>
            LET p == pathFromHost(op'.host)
            IN  /\ p \in DOMAIN store
                /\ op'.chc = store[p]
                /\ op'.source = store[p].Source
                /\ op'.source \in certFactories
                /\ store' = store /\ updateRequests' = updateRequests /\ hist' = hist
       /\ (opPc = "manualCall" /\ opPc' # "manualCall") =>
            /\ store' = store /\ updateRequests' = updateRequests /\ hist' = hist
            /\ opPc' \in {"idle", "manualSave"}
            /\ opPc' = "idle" => lastOp'.flash # "cert challenge started"
            /\ opPc' = "manualSave" =>
                    /\ op'.chc.Challenge # NoChallenge
                    /\ op'.chc.Source = op.chc.Source /\ op'.chc.Type = op.chc.Type
                    /\ op'.chc.Certificate = op.chc.Certificate
                    /\ op'.chc.PrivateKey = op.chc.PrivateKey
                    /\ op'.chc.CA = op.chc.CA
       /\ (opPc = "manualSave" /\ opPc' # "manualSave") =>
            /\ updateRequests' = updateRequests /\ hist' = hist
            /\ opPc' = "idle"
            /\ IF lastOp'.flash = "cert challenge started"
               THEN Overwritten(pathFromHost(op.host), op.chc)
               ELSE store' = store]_vars

\* the operator started a manual challenge on the stored host: the record
\* holds the challenge, and the source, certificate, key and chain it had;
\* no signal was sent
C28_Witness ==
    /\ lastOp.action = "manual"
    /\ lastOp.flash = "cert challenge started"
    /\ requests = 1
    /\ cycle.writes = 0
    /\ store[pathFromHost(UserHN)].Challenge = "dns-01"
    /\ store[pathFromHost(UserHN)].Certificate = Cert(100 * Day + 20 * Day)
    /\ store[pathFromHost(UserHN)].PrivateKey = "key"
    /\ store[pathFromHost(UserHN)].Source = "le-prod"
    /\ updateRequests = 0
    /\ hist.lastSig = -1

\* a manual challenge was asked for a host that is not stored: no record
\* was created
C28_NotFoundReached ==
    /\ lastOp.action = "manual"
    /\ lastOp.flash = "notfound"
    /\ pathFromHost(lastOp.host) \notin DOMAIN store

\* a manual challenge was asked for a host whose source is not registered
C28_UnknownSourceReached ==
    /\ lastOp.action = "manual"
    /\ lastOp.flash = "no cert source found"
    /\ store[pathFromHost(lastOp.host)].Source = "other-ca"
    /\ store[pathFromHost(lastOp.host)].Challenge = NoChallenge

(***************************************************************************)
(* newConf on any configuration, up to the return of daemonConf.Init; the  *)
(* goroutines of the daemon are not started yet.                           *)
(***************************************************************************)
InitConf ==
    /\ InitPathIdle
    /\ InitScan
    /\ InitOp
    /\ InitAcme
    /\ InitPub
    /\ InitSink
    /\ store = << >>
    /\ now = 0
    /\ updateRequests = 0
    /\ \E period \in PeriodSample, daysBefore \in DaysBeforeSample,
          names \in SUBSET SourceNames :
            \E sm \in [names -> SourceEntries], b \in BootstrapSample :
                conf = [ToInit(period, daysBefore, sm) EXCEPT !.Bootstrap = b]

NextConf == InitValidate \/ InitSource \/ InitFinish \/ NewConfReturn

SpecConf == InitConf /\ [][NextConf]_vars

\* the configuration has one of the faults Init looks for
Misconfigured ==
    \/ conf.Period = 0
    \/ conf.DaysBefore = 0
    \/ DOMAIN conf.sm = {}
    \/ \E n \in DOMAIN conf.sm : conf.sm[n].Type \notin {"self-signed", "acme"}

\* C19: with period zero, daysBefore zero, no source configured or a source
\* of a type other than self-signed and acme, Init returns an error and
\* newConf hands over no daemon to start; so an Init that returns nil had a
\* configuration with none of these.
C19_InitRejectsMisconfiguration ==
    /\ (conf.pc \in {"returned", "done"} /\ Misconfigured) => conf.err # ""
    /\ (conf.pc = "done" /\ conf.err # "") => ~conf.config
    /\ (conf.pc = "done" /\ conf.config) =>
            (~Misconfigured /\ conf.certFactories = DOMAIN conf.sm)

\* Init has made a source and then met one of an unknown type: newConf
\* returned the error and no daemon
C19_Witness ==
    /\ conf.pc = "done"
    /\ conf.err = "unknown cert source type"
    /\ conf.certFactories # {}
    /\ conf.Period # 0
    /\ conf.DaysBefore # 0
    /\ ~conf.config

\* the example manifest is accepted, and the daemon is the one the other
\* specifications start from
C19_ManifestStarted == conf = Started

\* daemon.go lines 331-334 on the source renewCertIfNeeded takes for a host
\* with no record (line 214): dc.certFactories[dc.Bootstrap.Source]
bootstrapDispatch(c) ==
    IF c.Bootstrap \in c.certFactories THEN "" ELSE "no cert source found"

\* C38: the daemon newConf hands over after an Init without error has a
\* bootstrap source that is a key of its certFactories, so that the
\* issuance for a host with no record finds its source.
C38_BootstrapSourceValid ==
    (conf.pc = "done" /\ conf.config) =>
        /\ conf.Bootstrap \in conf.certFactories
        /\ bootstrapDispatch(conf) = ""

\* Init has accepted a configuration whose bootstrap.source names none of
\* the sources it made: the daemon starts, and the issuance for a missing
\* fixed host ends in 'no cert source found'
C38_UnknownBootstrapReached ==
    /\ conf.pc = "done"
    /\ conf.config
    /\ conf.err = ""
    /\ conf.certFactories # {}
    /\ conf.Bootstrap \notin conf.certFactories
    /\ bootstrapDispatch(conf) = "no cert source found"

(***************************************************************************)
(* The calls of the two goroutines into the ACME sources, on their own.    *)
(***************************************************************************)
InitAcmeSpec ==
    /\ InitPathIdle
    /\ InitScan
    /\ InitOp
    /\ InitAcme
    /\ InitStarted
    /\ InitSink
    /\ InitPub
    /\ store = << >>
    /\ now = 0
    /\ updateRequests = 0

NextAcme ==
    \/ \E c \in Callers : AutoFetchCert(c)
    \/ \E c \in Callers : ManualStartChallenge(c)
    \/ \E c \in Callers : CompleteChallenge(c)
    \/ \E c \in Callers : AcmeLock(c)
    \/ \E c \in Callers : ensureRegistered(c)
    \/ \E c \in Callers : ManualAuthorizeOrder(c)
    \/ \E c \in Callers : ManualGetAuthorization(c)
    \/ \E c \in Callers : newDNSChallenge(c)
    \/ \E c \in Callers : AuthorizeOrder(c)
    \/ \E c \in Callers : GetAuthorization(c)
    \/ \E c \in Callers : Accept(c)
    \/ \E c \in Callers : WaitAuthorization(c)
    \/ \E c \in Callers : WaitOrder(c)
    \/ \E c \in Callers : issueCert(c)
    \/ \E c \in Callers : RunDeferredClear(c)
    \/ \E c \in Callers : AcmeReturn(c)

SpecAcme == InitAcmeSpec /\ [][NextAcme]_vars

\* C8: when an AutoFetchCert call has returned, with a certificate or with
\* any error, or has been left by a panic, no entry it published is in the
\* challenge/response map: every entry of the map was published by a call
\* that is still in progress.
C8_PublishedPathsCleared ==
    \A k \in DOMAIN challengeResponse :
        LET by == challengeResponse[k].by
        IN  /\ call[by[1]].n = by[2]
            /\ call[by[1]].pc # "idle"

\* a call that published two challenge paths is about to return an error of
\* the CA's validation: its deferred clears have run and no entry of the
\* map is one it published
C8_Witness ==
    \E c \in Callers :
        /\ call[c].pc = "unwind"
        /\ call[c].defers = <<>>
        /\ call[c].pub = 2
        /\ call[c].err \in {"Accept failed", "WaitAuthorization failed",
                            "WaitOrder failed", "issueCert failed"}
        /\ \A k \in DOMAIN challengeResponse : challengeResponse[k].by[1] # c

\* C14 as stated: a call whose Register failed leaves the source not known
\* registered, so that the next call attempts the registration again.
C14_FailedAttemptNotRegistered ==
    \A c \in Callers :
        (call[c].pc \notin {"idle", "lock", "register"} /\ call[c].reg = "failed")
            => ~acmeKnownRegistered[call[c].source]

\* C14: every call of AutoFetchCert, ManualStartChallenge and
\* CompleteChallenge attempts the registration exactly when the source is
\* not yet known registered; after the attempt the source is known
\* registered whether Register succeeded or failed, and it stays so, so
\* that every later call on the source skips the registration.
C14_RegisteredAfterFirstAttempt ==
    [][/\ \A c \in Callers :
            (call[c].pc = "register" /\ call'[c].pc # "register") =>
                /\ (call'[c].reg = "skipped") = acmeKnownRegistered[call[c].source]
                /\ acmeKnownRegistered'[call[c].source]
       /\ \A s \in AcmeSources :
            acmeKnownRegistered[s] => acmeKnownRegistered'[s]]_vars

\* the scan's call on a source had its registration fail, and the operator's
\* later call on the same source has skipped the registration
C14_Witness ==
    /\ call["scan"].pc = "idle"
    /\ call["scan"].reg = "failed"
    /\ call["admin"].reg = "skipped"
    /\ call["admin"].kind \in {"manual", "complete"}
    /\ call["admin"].source = call["scan"].source

\* a ManualStartChallenge call of c has left the function body
ManualOver(c) == call[c].kind = "manual" /\ call[c].pc = "unwind"

\* C30: a ManualStartChallenge call returns an error when the order is
\* ready and when no authorization offers a dns-01 challenge, and in every
\* other outcome it returns an error or a descriptor with a dns-01
\* challenge: it never panics.
C30_ErrorOrChallenge ==
    \A c \in Callers :
        ManualOver(c) =>
            /\ call[c].err # "panic"
            /\ call[c].order = "ready" => call[c].err # ""
            /\ call[c].chal = "nil" => call[c].err # ""
            /\ call[c].err = "" => call[c].chal = "dns-01"

\* the CA answered with an order that is pending and lists no
\* authorization, or is neither pending nor ready: the call has panicked
C30_PanicReached ==
    /\ ManualOver("admin")
    /\ call["admin"].err = "panic"
    /\ call["admin"].chal = "nil"
    /\ call["admin"].order \in {"pending", "invalid"}

\* inside(c): c holds the mutex of its source
inside(c) == call[c].pc \notin {"idle", "lock"}

\* C15: no two goroutines are inside AutoFetchCert, ManualStartChallenge or
\* CompleteChallenge of the same source at once; a goroutine that calls a
\* method of a source while another one is inside waits at the lock.
C15_OnePerSource ==
    /\ \A c, d \in Callers :
            (c # d /\ inside(c) /\ inside(d)) => call[c].source # call[d].source
    /\ \A c \in Callers : inside(c) => lock[call[c].source]

\* the scan is inside AutoFetchCert of a source between AuthorizeOrder and
\* the certificate while the operator's CompleteChallenge on the same
\* source waits at the lock
C15_Witness ==
    /\ call["scan"].kind = "auto"
    /\ call["scan"].pc \in {"authz", "accept", "wait", "issue"}
    /\ call["admin"].kind = "complete"
    /\ call["admin"].pc = "lock"
    /\ call["admin"].source = call["scan"].source

\* calls on different sources overlap: the scan's AutoFetchCert and the
\* operator's ManualStartChallenge are both past AuthorizeOrder
C15_OverlapReached ==
    /\ call["scan"].kind = "auto"
    /\ call["scan"].pc = "accept"
    /\ call["admin"].kind = "manual"
    /\ call["admin"].pc = "authz"
    /\ call["admin"].source # call["scan"].source

(***************************************************************************)
(* AutoFetchCert alone, called by the two goroutines, with CAs whose       *)
(* tokens are fresh.                                                       *)
(***************************************************************************)
NextAuto ==
    \/ \E c \in Callers : AutoFetchCert(c)
    \/ \E c \in Callers : AcmeLock(c)
    \/ \E c \in Callers : ensureRegistered(c)
    \/ \E c \in Callers : AuthorizeOrder(c)
    \/ \E c \in Callers : GetFreshAuthorization(c)
    \/ \E c \in Callers : Accept(c)
    \/ \E c \in Callers : WaitAuthorization(c)
    \/ \E c \in Callers : WaitOrder(c)
    \/ \E c \in Callers : issueCert(c)
    \/ \E c \in Callers : RunDeferredClear(c)
    \/ \E c \in Callers : AcmeReturn(c)

SpecAuto == InitAcmeSpec /\ [][NextAuto]_vars

\* C31: AutoFetchCert on the status of the new order.  A ready order goes
\* straight from AuthorizeOrder to issueCert: nothing is published in the
\* challenge/response map and no challenge is accepted.  Of a pending order
\* every authorization is gone through before WaitOrder and issueCert: one
\* is done with only when WaitAuthorization has answered, which follows
\* Accept, which follows the publication of its http-01 challenge.  An
\* order of any other status makes the call return the 'invalid new order
\* status' error with nothing published and without issueCert.
C31_OrderStatusHandling ==
    /\ [](\A c \in Callers :
            (call[c].kind = "auto" /\ call[c].order # "") =>
                /\ call[c].order = "ready" =>
                        /\ call[c].pc \in {"issue", "unwind"}
                        /\ call[c].pub = 0
                        /\ call[c].defers = <<>>
                /\ (call[c].order = "pending" /\ call[c].pc = "issue") =>
                        call[c].todo = 0
                /\ call[c].order \notin {"ready", "pending"} =>
                        /\ call[c].pc = "unwind"
                        /\ call[c].err = "invalid new order status"
                        /\ call[c].pub = 0)
    /\ [][\A c \in Callers :
            call[c].kind = "auto" =>
                /\ (call[c].pc = "order" /\ call'[c].order = "ready") =>
                        /\ call'[c].pc = "issue"
                        /\ challengeResponse' = challengeResponse
                /\ (call'[c].todo < call[c].todo /\ call'[c].pc # "unwind") =>
                        /\ call[c].pc = "wait"
                        /\ call'[c].todo = call[c].todo - 1
                /\ (call'[c].pc = "wait" /\ call[c].pc # "wait") =>
                        call[c].pc = "accept"
                /\ (call'[c].pc = "accept" /\ call[c].pc # "accept") =>
                        /\ call[c].pc = "authz"
                        /\ call'[c].pub = call[c].pub + 1
                        /\ Head(call'[c].defers) \in DOMAIN challengeResponse'
                /\ (call'[c].pc = "issue" /\ call[c].pc # "issue") =>
                        \/ call[c].pc = "order" /\ call'[c].order = "ready"
                        \/ /\ call[c].pc = "authz"
                           /\ call[c].order = "pending"
                           /\ call[c].todo = 0]_vars

\* the two authorizations of a pending order have been published and
\* awaited, and the call is at issueCert
C31_Witness ==
    \E c \in Callers :
        /\ call[c].kind = "auto"
        /\ call[c].order = "pending"
        /\ call[c].pc = "issue"
        /\ call[c].pub = 2
        /\ Len(call[c].defers) = 2

\* the order was ready: the call is at issueCert with nothing published
C31_ReadyReached ==
    \E c \in Callers :
        /\ call[c].kind = "auto"
        /\ call[c].order = "ready"
        /\ call[c].pc = "issue"
        /\ call[c].pub = 0
        /\ \A k \in DOMAIN challengeResponse : challengeResponse[k].by[1] # c

\* the order had another status: the call returns the error
C31_InvalidReached ==
    \E c \in Callers :
        /\ call[c].kind = "auto"
        /\ call[c].order = "invalid"
        /\ call[c].pc = "unwind"
        /\ call[c].err = "invalid new order status"

\* the path and the value AutoFetchCert published last in the call of c
lastPublished(c) == Head(call[c].defers)

\* a GET of path k on the responder answers the value the call of c published
lookupSucceeds(c, k) ==
    /\ k \in DOMAIN challengeResponse
    /\ challengeResponse[k].v = HTTP01ChallengeResponse(k[2], call[c].source)
    /\ challengeResponse[k].by = <<c, call[c].n>>

\* C32: for every pending authorization, the token's path and value are in
\* the challenge/response map when the CA is asked to validate (before
\* Accept) and stay there while the validation is awaited (until
\* WaitAuthorization has answered): an entry leaves the map only by a
\* deferred clear of the call that published it, when that call is left.
\* An authorization that offers no http-01 challenge makes the call fail
\* with nothing published for it.
C32_PublishedWhileValidated ==
    /\ [](\A c \in Callers :
            (call[c].kind = "auto" /\ call[c].pc \in {"accept", "wait"}) =>
                /\ call[c].defers # <<>>
                /\ lookupSucceeds(c, lastPublished(c)))
    /\ [][/\ \A k \in DOMAIN challengeResponse :
                k \notin DOMAIN challengeResponse' =>
                    LET by == challengeResponse[k].by
                    IN  /\ call[by[1]].pc = "unwind"
                        /\ call[by[1]].n = by[2]
                        /\ Head(call[by[1]].defers) = k
          /\ \A c \in Callers :
                (/\ call[c].kind = "auto"
                 /\ call[c].pc = "authz"
                 /\ call'[c].err = "no supported challenge type found") =>
                    /\ call'[c].pc = "unwind"
                    /\ call'[c].pub = call[c].pub
                    /\ challengeResponse' = challengeResponse
          /\ \A c \in Callers :
                (/\ call[c].kind = "auto"
                 /\ call[c].pc = "accept"
                 /\ call'[c].pc # "accept") =>
                    lookupSucceeds(c, lastPublished(c))]_vars

\* the scan's call awaits the validation of an authorization and the
\* operator's call on the other source is about to ask for the validation of
\* its own: both entries are in the map
C32_Witness ==
    /\ call["scan"].kind = "auto"
    /\ call["scan"].pc = "wait"
    /\ call["admin"].kind = "auto"
    /\ call["admin"].pc = "accept"
    /\ lookupSucceeds("scan", lastPublished("scan"))
    /\ lookupSucceeds("admin", lastPublished("admin"))
    /\ lastPublished("scan") # lastPublished("admin")

\* the second authorization of an order offers no http-01 challenge: the
\* call fails with the entry of the first one only
C32_NoChallengeReached ==
    \E c \in Callers :
        /\ call[c].pc = "unwind"
        /\ call[c].err = "no supported challenge type found"
        /\ call[c].pub = 1
        /\ Len(call[c].defers) = 1

\* C40: whichever way an AutoFetchCert call leaves its loop over the
\* pending authorizations, a failed GetAuthorization included, it returns an
\* error value to its caller: it does not panic, and the process runs on.
C40_FetchFailureReturnsError ==
    /\ running
    /\ \A c \in Callers :
            (call[c].kind = "auto" /\ call[c].pc = "unwind") =>
                call[c].err # "panic"

\* GetAuthorization failed for an authorization of a pending order in the
\* scan's call: the call has panicked with the mutex held, and the
\* deferred calls are to run
C40_PanicReached ==
    /\ call["scan"].kind = "auto"
    /\ call["scan"].order = "pending"
    /\ call["scan"].pc = "unwind"
    /\ call["scan"].err = nilAuthorization
    /\ lock[call["scan"].source]

\* the panic was in the scan goroutine, which recovers nothing: the mutex
\* was released and the map cleared by the deferred calls, and the process
\* has ended
C40_ProcessEnded ==
    /\ ~running
    /\ call["scan"].pc = "idle"
    /\ ~lock[call["scan"].source]
    /\ \A k \in DOMAIN challengeResponse : challengeResponse[k].by[1] # "scan"

(***************************************************************************)
(* The publish loop from the start of the daemon, with certificates saved  *)
(* by the other goroutines at any time.                                    *)
(***************************************************************************)
InitPublish ==
    /\ InitPathIdle
    /\ InitScan
    /\ InitOp
    /\ InitAcme
    /\ InitStarted
    /\ InitSink
    /\ InitPub
    /\ store = << >>
    /\ now = 0
    /\ updateRequests = 0

NextPublish ==
    \/ Persist \/ TimerExpire \/ PubSelect \/ PubFetch \/ PubObserve
    \/ PubReturn \/ PubRetry \/ Tick

SpecPublish == InitPublish /\ [][NextPublish]_vars

\* C6: a fan-out that follows one or more signals starts no earlier than 30
\* seconds after the last signal sent before it, so signals closer than 30
\* seconds to each other have no fan-out between them; a fan-out that
\* follows no signal is the one of the start; and while signals wait for
\* their fan-out the timer is armed, due 30 seconds or more after the last
\* of them and not yet passed, so that one fan-out does follow.
C6_DebouncedFanout ==
    /\ (hist.fanouts > 0 /\ hist.burstAtFire >= 1) =>
            hist.fanoutAt >= hist.sigAtFire + Debounce
    /\ (hist.fanouts > 0 /\ hist.burstAtFire = 0) =>
            (hist.fanouts = 1 /\ hist.fanoutAt = InitialDelay)
    /\ (pubPc = "select" /\ hist.burst >= 1) =>
            /\ timer.active
            /\ timer.at >= hist.lastSig + Debounce
            /\ timer.at <= now + Debounce
            /\ now <= timer.at
    /\ pubPc # "drain"

\* two signals sent 20 seconds apart have had their one fan-out, 30 seconds
\* after the second
C6_Witness ==
    /\ hist.burstAtFire = 2
    /\ hist.fanouts = 1
    /\ hist.sigAtFire = 20
    /\ hist.fanoutAt = 50
    /\ hist.sent = 2

\* C7: in a fan-out whose FetchCerts succeeded the observers are called in
\* the order of registration, each with the certificates fetched, whatever
\* the observers before it returned; when the fan-out is over all of them
\* have been called, and one retry signal has been sent if any of them
\* failed, none otherwise.
C7_FanoutCallsEveryObserver ==
    /\ Len(fo.calls) <= Len(observers)
    /\ \A i \in DOMAIN fo.calls :
        /\ fo.calls[i].ob = observers[i]
        /\ fo.calls[i].certs = fo.certs
    /\ (fo.done /\ fo.calls # <<>>) =>
        /\ Len(fo.calls) = Len(observers)
        /\ fo.retried = IF \E i \in DOMAIN fo.calls : fo.calls[i].err # "" THEN 1 ELSE 0
    /\ ~fo.done => fo.retried = 0

\* a fan-out is over in which the first observer failed and the second was
\* given the same certificates, after the store had changed
C7_Witness ==
    /\ fo.done
    /\ Len(fo.calls) = 2
    /\ fo.calls[1].err # ""
    /\ fo.calls[2].err = ""
    /\ fo.certs # {}
    /\ fo.certs # FetchCerts(store)
    /\ fo.retried = 1

(***************************************************************************)
(* The publish loop against the operator's requests on a stored host, with *)
(* time passing up to the instant the timer is due.  The loop's goroutine  *)
(* is scheduled, the runtime fires a due timer and time passes: weak       *)
(* fairness on each of these.  The operator's requests are under no        *)
(* obligation to happen.                                                   *)
(***************************************************************************)
RepublishRecords ==
    {[Source |-> "le-prod", Type |-> "user", CA |-> "roots",
      Certificate |-> Cert(90 * Day), PrivateKey |-> "key",
      Challenge |-> ch] : ch \in {NoChallenge, "dns-01"}}

InitRepublish ==
    /\ InitPathIdle
    /\ InitScan
    /\ InitOp
    /\ InitAcme
    /\ InitStarted
    /\ InitSink
    /\ InitPub
    /\ \E rec \in RepublishRecords :
          store = SavePath(<< >>, pathFromHost(UserHN), rec)
    /\ now = 0
    /\ updateRequests = 0

\* the loop is blocked in select until the timer is due: 5 seconds, 30
\* seconds or a year pass
Sleep ==
    /\ pubPc = "select"
    /\ timer.active
    /\ now < timer.at
    /\ hist.fanouts < MaxFanouts
    /\ now' = timer.at
    /\ UNCHANGED <<store, updateRequests, pubVars, notPub>>

NextRepublish ==
    \/ TimerExpire \/ PubSelect \/ PubFetch \/ PubObserve \/ PubReturn \/ PubRetry
    \/ Sleep
    \/ OpCreate \/ OpCreateSave \/ OpDelete
    \/ OpAuto \/ OpComplete \/ OpIssue \/ OpSave \/ OpSignal

FairRepublish ==
    /\ WF_vars(TimerExpire)
    /\ WF_vars(PubSelect)
    /\ WF_vars(PubFetch)
    /\ WF_vars(PubObserve)
    /\ WF_vars(PubReturn)
    /\ WF_vars(PubRetry)
    /\ WF_vars(Sleep)

SpecRepublish == InitRepublish /\ [][NextRepublish]_vars /\ FairRepublish

\* the stored set is not the one the last completed fan-out fetched
Unpublished == fo.done /\ fo.certs # FetchCerts(store)

FanoutStarts == hist'.fanouts > hist.fanouts

\* C37: the timer is armed for 5 seconds at the start, so that without any
\* signal the first fan-out starts 5 seconds after the start, of the set
\* stored; the fan-out re-arms the timer a year ahead, so that a fan-out
\* that no signal precedes starts a year or more after the one before it.
C37_StartupFanout ==
    /\ []((hist.fanouts = 0 /\ hist.burst = 0) =>
            /\ timer.at = InitialDelay
            /\ timer.active \/ tC = 1)
    /\ []((hist.fanouts >= 1 /\ hist.burst = 0) =>
            /\ timer.at = hist.fanoutAt + LongDelay
            /\ timer.active \/ tC = 1)
    /\ [][(FanoutStarts /\ hist.burst = 0) =>
            IF hist.fanouts = 0
            THEN now = InitialDelay
            ELSE now >= hist.fanoutAt + LongDelay]_vars
    /\ <>(hist.fanouts >= 1)

\* no signal has been sent, and the fan-out of the start has run at 5
\* seconds with the stored set; the loop waits with the timer due in a year
C37_Witness ==
    /\ hist.fanouts = 1
    /\ hist.fanoutAt = InitialDelay
    /\ hist.lastSig = -1
    /\ hist.burstAtFire = 0
    /\ fo.done
    /\ fo.certs = FetchCerts(store)
    /\ fo.certs # {}
    /\ pubPc = "select"
    /\ timer.active
    /\ timer.at = InitialDelay + LongDelay

\* a signal was received after the fan-out of the start: the timer is due
\* 30 seconds after it and the next fan-out follows
C37_SignalledFanoutReached ==
    /\ hist.fanouts = 2
    /\ hist.burstAtFire >= 1
    /\ hist.fanoutAt < InitialDelay + LongDelay

(***************************************************************************)
(* The publish loop with a store and observers that fail for a while and   *)
(* then recover: they may fail in every fan-out but the last one followed. *)
(* Certificates are persisted by other goroutines at any time.  The loop's *)
(* goroutine is scheduled, the runtime fires a due timer and time passes.  *)
(***************************************************************************)
\* the store and the observers have recovered
Recovered == hist.fanouts >= MaxFanouts

FetchUntilRecovered == PubFetch /\ (Recovered => fo'.retErr = "")

ObserveUntilRecovered == PubObserve /\ (Recovered => fo'.retErr = "")

NextRetry ==
    \/ Persist \/ TimerExpire \/ PubSelect \/ FetchUntilRecovered
    \/ ObserveUntilRecovered \/ PubReturn \/ PubRetry \/ Sleep

FairRetry ==
    /\ WF_vars(TimerExpire)
    /\ WF_vars(PubSelect)
    /\ WF_vars(FetchUntilRecovered)
    /\ WF_vars(ObserveUntilRecovered)
    /\ WF_vars(PubReturn)
    /\ WF_vars(PubRetry)
    /\ WF_vars(Sleep)

SpecRetry == InitPublish /\ [][NextRetry]_vars /\ FairRetry

\* the fan-out in fo is over and the store and every observer succeeded in
\* it, each observer on the set fetched
FanoutSucceeded ==
    /\ fo.done
    /\ fo.retErr = ""
    /\ Len(fo.calls) = Len(observers)
    /\ \A i \in DOMAIN fo.calls : fo.calls[i].err = "" /\ fo.calls[i].certs = fo.certs

\* C22: a fan-out that failed (FetchCerts or an observer returned an error)
\* sends one signal, and the fan-out after it starts 30 seconds or more
\* after that failure; a fan-out delivers the set the store holds when it
\* fetches; and, the store and the observers failing in the first fan-outs
\* only, every signal sent (by a persisted certificate or by a failed
\* fan-out) is followed by a later fan-out in which the fetch and all the
\* observers succeed.
C22_FailedFanoutRetried ==
    /\ [][/\ (pubPc = "returned" /\ pubPc' = "loop" /\ fo.retErr # "") =>
                /\ updateRequests' = updateRequests + 1
                /\ hist'.lastSig = now
                /\ hist'.burst = hist.burst + 1
          /\ (pubPc = "returned" /\ pubPc' = "loop" /\ fo.retErr = "") =>
                /\ updateRequests' = updateRequests
                /\ hist' = hist
          /\ (hist'.fanouts # hist.fanouts /\ fo.retErr # "") =>
                /\ hist.burst >= 1
                /\ now >= hist.lastSig + Debounce
          /\ (pubPc = "fetch" /\ pubPc' = "observe") =>
                fo'.certs = FetchCerts(store)]_vars
    /\ \A n \in 0..(MaxFanouts - 1) :
            (hist.fanouts = n /\ hist.burst >= 1) ~> (hist.fanouts > n /\ FanoutSucceeded)

\* the one certificate persisted was signalled at the start, the fan-out 30
\* seconds later failed and signalled, and the fan-out 30 seconds after that
\* failure has delivered the stored set to every observer
C22_Witness ==
    /\ hist.sent = 1
    /\ hist.fanouts = 2
    /\ hist.burstAtFire = 1
    /\ hist.sigAtFire = Debounce
    /\ hist.fanoutAt = 2 * Debounce
    /\ FanoutSucceeded
    /\ fo.certs = FetchCerts(store)
    /\ fo.certs # {}

(***************************************************************************)
(* One scan cycle while the publish loop runs the fan-out of the start,    *)
(* with signals of earlier saves waiting in the channel.                   *)
(***************************************************************************)
\* the number of signals waiting when the cycle starts
BacklogSample == {UpdateRequestsCap - 1, UpdateRequestsCap}

InitBacklog ==
    /\ InitPathIdle
    /\ InitScan
    /\ InitOp
    /\ InitAcme
    /\ InitStarted
    /\ InitSink
    /\ now = InitialDelay
    /\ store = SavePath(<< >>, pathFromHost(UserHN),
                        issuedRecord(UserHN, "le-prod", Cert(InitialDelay + Day)))
    /\ updateRequests \in BacklogSample
    /\ pubPc = "fetch"
    /\ timer = [active |-> TRUE, at |-> InitialDelay + LongDelay]
    /\ tC = 0
    /\ fo = [NoFanout EXCEPT !.done = FALSE]
    /\ hist = [NoHist EXCEPT !.fanouts = 1, !.fanoutAt = InitialDelay,
                             !.lastSig = IF updateRequests > 0 THEN InitialDelay ELSE -1,
                             !.burst = updateRequests]

NextBacklog ==
    \/ ScanStart \/ ScanEval \/ ScanIssue \/ ScanSave \/ ScanSignal \/ ScanReturn
    \/ PubSelect \/ PubFetch \/ PubObserve \/ PubReturn \/ PubRetry

SpecBacklog == InitBacklog /\ [][NextBacklog]_vars

\* C12 as stated: whenever the scan's getCertAndSave is at its send on
\* dc.updateRequests, the send can complete at once, whatever the publish
\* loop is doing.
C12_SendNeverWaits ==
    (running /\ scanPc = "signal") => ENABLED ScanSignal

\* C12, amended: whenever the scan's getCertAndSave is at its send on
\* dc.updateRequests and fewer than 1000 signals wait in the channel, the
\* send can complete at once, whatever the publish loop is doing.
C12_SendCompletesWhileRoom ==
    (running /\ scanPc = "signal" /\ updateRequests < UpdateRequestsCap) =>
        ENABLED ScanSignal

\* the scan is at its send with 999 signals waiting while the publish loop
\* is in a fan-out
C12_Witness ==
    /\ running
    /\ scanPc = "signal"
    /\ updateRequests = UpdateRequestsCap - 1
    /\ pubPc \in {"fetch", "observe"}

\* the scan is at its send with 1000 signals waiting while the publish loop
\* is in a fan-out
C12_BlockedReached ==
    /\ running
    /\ scanPc = "signal"
    /\ updateRequests = UpdateRequestsCap
    /\ pubPc \in {"fetch", "observe"}

\* C36: the publish loop is never blocked for good: it is not waiting on
\* t.C after a Stop that returned false with nothing to drain, and when
\* updateObservers has returned, its retry send included, it can go on to
\* its select.
C36_LoopNeverBlocked ==
    /\ pubPc # "drain"
    /\ pubPc = "returned" => ENABLED PubRetry

\* a value leaves dc.updateRequests only by the publish loop's select
C36_OnlyConsumer ==
    [][updateRequests' < updateRequests => pubPc = "loop"]_vars

\* the timer's channel holds the value whenever the timer is not armed, so
\* the drain after a Stop that returned false has a value to take
C36_DrainHasValue == (~timer.active => tC = 1) /\ pubPc # "drain"

\* the fan-out has failed with 1000 signals waiting: the loop is at its own
\* send, which waits for a receive that only the loop itself would make
C36_BlockedReached ==
    /\ pubPc = "returned"
    /\ needsRetry(fo.retErr)
    /\ updateRequests = UpdateRequestsCap
    /\ ~ENABLED PubRetry

(***************************************************************************)
(* The scan loop alone, from a first start on an empty store, over its     *)
(* first iterations.                                                       *)
(***************************************************************************)
NextLoop ==
    \/ ScanStart \/ ScanEval \/ ScanIssue \/ ScanSave \/ ScanSignal \/ ScanReturn
    \/ LoopSleep

SpecLoop == Init /\ [][NextLoop]_vars

\* the scan loop goes to sleep
SleepStep == scanPc = "returned" /\ scanPc' = "start"

\* C21: the sleep after a cycle is 15 seconds exactly when the cycle returned
\* a communications error and no earlier cycle of this run returned without
\* error, and the full period otherwise; the loop counts as bootstrapped
\* from the first cycle that returns without error, and stays so.
C21_SleepInterval ==
    [][/\ SleepStep =>
            now' - now = IF retErr = "comms" /\ ~bootstrapped
                         THEN CommsRetrySleep ELSE Period
       /\ bootstrapped' = (bootstrapped \/ (SleepStep /\ retErr = ""))]_vars

\* a bootstrapped loop has slept the full period after a communications
\* error
C21_Witness ==
    /\ bootstrapped
    /\ retErr = "comms"
    /\ sleeps = 2
    /\ scanPc = "start"
    /\ now >= 2 * Period

\* before the first success, the short sleep after a communications error
C21_ShortSleepReached ==
    /\ ~bootstrapped
    /\ retErr = "comms"
    /\ sleeps = 1
    /\ now = CommsRetrySleep

\* C34: the record of a host that is not a fixed host comes into the store
\* only by the save of an operator's create request for that host; a scan
\* cycle under way when the operator deletes the host does not put a record
\* back.
C34_OnlyOperatorCreates ==
    [][\A hn \in Hosts :
        LET p == pathFromHost(hn)
        IN  (~isFixedHost(hn) /\ p \notin DOMAIN store /\ p \in DOMAIN store') =>
                /\ opPc = "createSave"
                /\ op.host = hn]_vars

\* the operator has deleted a host after the cycle's FetchCerts listed it:
\* the scan has found no record, taken the host for a missing one, and
\* saved a certificate of the bootstrap source for it
C34_RecreatedReached ==
    /\ lastOp.action = "delete"
    /\ lastOp.host = UserHN
    /\ lastOp.flash = "cert successfully deleted"
    /\ ev.host = UserHN
    /\ ev.load.err = "notfound"
    /\ ev.wrote
    /\ pathFromHost(UserHN) \in DOMAIN store
    /\ store[pathFromHost(UserHN)].Source = BootstrapSource

\* C35: the save of StartManualChallenge, and of the operator's change of
\* source, leaves the certificate, the key and the CA chain of the stored
\* record as they are at the moment of the save: material persisted by an
\* issuance since the request loaded the record is not replaced by what was
\* loaded.
C35_NoLostUpdate ==
    [][(opPc \in {"manualSave", "sourceSave"} /\ opPc' = "idle") =>
        LET p == pathFromHost(op.host)
        IN  (p \in DOMAIN store /\ p \in DOMAIN store') =>
                /\ store'[p].Certificate = store[p].Certificate
                /\ store'[p].PrivateKey = store[p].PrivateKey
                /\ store'[p].CA = store[p].CA]_vars

\* the scan has renewed the host and saved the new certificate after the
\* operator's StartManualChallenge loaded the record, and the request's save
\* has put the certificate it loaded back, with the challenge
C35_LostUpdateReached ==
    LET p == pathFromHost(UserHN)
    IN  /\ lastOp.action = "manual"
        /\ lastOp.host = UserHN
        /\ lastOp.flash = "cert challenge started"
        /\ ev.host = UserHN
        /\ ev.wrote
        /\ ev.done
        /\ store[p].Challenge = "dns-01"
        /\ store[p].Certificate = ev.load.chc.Certificate
        /\ store[p].Certificate # Cert(ev.at + Day)

\* the same with the operator's change of source
C35_SourceLostUpdateReached ==
    LET p == pathFromHost(UserHN)
    IN  /\ lastOp.action = "source"
        /\ lastOp.host = UserHN
        /\ lastOp.flash = ""
        /\ ev.host = UserHN
        /\ ev.wrote
        /\ ev.done
        /\ store[p].Certificate = ev.load.chc.Certificate
        /\ store[p].Certificate # Cert(ev.at + Day)

\* the running cycle has met a communications error
CommsObserved == scanPc \in {"eval", "issue", "save", "signal"} /\ retErr = "comms"

\* C39: once the evaluation of a host has failed with a communications
\* error, the cycle returns a communications error whatever the later hosts
\* end in, so that the sleep after a cycle that is not yet bootstrapped is
\* the short one.
C39_CommsErrorKept ==
    [][/\ CommsObserved => retErr' = "comms"
       /\ (SleepStep /\ retErr = "comms" /\ ~bootstrapped) =>
                now' - now = CommsRetrySleep]_vars

\* the communications error is kept to the end of the cycle when every
\* later host is evaluated without error
C39_KeptWhileNoLaterError ==
    [][(CommsObserved /\ cycle'.lastErr = cycle.lastErr /\ scanPc' # "panicked") =>
            retErr' = "comms"]_vars

\* the first fixed host has failed with a communications error and the
\* second is being issued a certificate, which is still to be saved
C39_LaterHostReached ==
    /\ ~bootstrapped
    /\ scanPc = "save"
    /\ retErr = "comms"
    /\ cycle.seen = fixedHosts
    /\ ev.host = ourHN

(***************************************************************************)
(* The scan loop over a store whose records are due for renewal from any   *)
(* source, every call of a source and of the store returning in the end.   *)
(***************************************************************************)
\* records 20 days from expiry, inside the renewal window
CycleRecords ==
    {[Source |-> s, Type |-> "user", CA |-> "roots",
      Certificate |-> Cert(20 * Day), PrivateKey |-> "key",
      Challenge |-> NoChallenge] : s \in {"self-signed", "le-prod"}}

InitCycle ==
    /\ InitPathIdle
    /\ InitScan
    /\ InitOp
    /\ InitAcme
    /\ InitStarted
    /\ InitSink
    /\ InitPub
    /\ \E present \in SUBSET {pathFromHost(ourHN), pathFromHost(UserHN)} :
            store \in [present -> CycleRecords]
    /\ now = 0
    /\ updateRequests = 0

\* the goroutine of the scan loop is scheduled; LoadPath, SavePath and
\* FetchCerts answer; the source's call ends at its deadline at the latest
\* (daemon.go:323-324, context.WithTimeout); time.Sleep returns
FairCycle ==
    /\ WF_vars(ScanStart)
    /\ WF_vars(ScanEval)
    /\ WF_vars(ScanIssue)
    /\ WF_vars(ScanSave)
    /\ WF_vars(ScanSignal)
    /\ WF_vars(ScanReturn)
    /\ WF_vars(LoopSleep)

SpecCycle == InitCycle /\ [][NextLoop]_vars /\ FairCycle

\* C33: every scan cycle the loop starts returns, and the loop sleeps and
\* starts the next one, whatever the store and the sources answer within
\* their deadlines.
C33_CycleTerminates ==
    \A n \in 0..(MaxLoopSleeps - 1) :
        (scanPc = "start" /\ sleeps = n) ~> (scanPc = "start" /\ sleeps = n + 1)

\* every cycle returns and is followed by the next one, unless a call of an
\* ACME source has panicked in it
C33_TerminatesUnlessPanic ==
    \A n \in 0..(MaxLoopSleeps - 1) :
        (scanPc = "start" /\ sleeps = n) ~>
            \/ scanPc = "start" /\ sleeps = n + 1
            \/ scanPc = "panicked"

\* every host of a cycle is evaluated at most once, and the hosts left
\* become fewer at every evaluation
C33_FiniteCycle ==
    /\ [](\A i, j \in DOMAIN cycle.seen : cycle.seen[i] = cycle.seen[j] => i = j)
    /\ [](Len(cycle.seen) + Len(scanTodo) = Len(cycle.plan) \/ scanPc = "start"
          \/ cycle.fetchErr # "")
    /\ [][scanPc = "eval" /\ scanPc' # "returned" => Len(scanTodo') < Len(scanTodo)]_vars

\* the AutoFetchCert of an ACME source, asked for the second host of the
\* second cycle, has met its deadline in GetAuthorization and panicked: the
\* loop has ended with hosts left
C33_PanicReached ==
    /\ scanPc = "panicked"
    /\ ~running
    /\ sleeps = 1
    /\ ev.source \in AcmeSources
    /\ scanTodo # <<>>

(***************************************************************************)
(* The output observer alone: calls of CertsAreUpdated, one after the      *)
(* other as updateObservers makes them, on two buckets.                    *)
(***************************************************************************)
NextSink == CertsAreUpdated \/ Put \/ SinkReturn

SpecSink == Init /\ [][NextSink]_vars

\* C23: a Put returns at the comparison, without a request to AWS, exactly
\* when the archive equals the bytes of the bucket's last successful upload,
\* and goes on to the upload otherwise; lastSuccessfulWritten becomes the
\* archive when the upload succeeds and changes in no other step, so the
\* archive of a failed upload is uploaded again by the next call and an
\* archive already uploaded is not.
C23_UploadOnlyWhenChanged ==
    [][\A i \in DOMAIN output.S3 :
        LET b == output.S3[i]
            isPut == output.pc = "put" /\ output.i = i /\ output'.i = i + 1
            e == output'.puts[Len(output'.puts)]
        IN  /\ isPut =>
                /\ e.bucket = i /\ e.data = output.tb
                /\ (e.request = "none") = (output.tb = b.lastSuccessfulWritten)
                /\ e.request = "none" => e.err = ""
                /\ e.request = "session" => e.err # ""
                /\ output'.S3[i].lastSuccessfulWritten =
                        IF e.request = "upload" /\ e.err = ""
                        THEN output.tb ELSE b.lastSuccessfulWritten
            /\ ~isPut =>
                output'.S3[i].lastSuccessfulWritten = b.lastSuccessfulWritten]_vars

\* the second call delivers the archive of the first: the first bucket, which
\* took it then, gets no upload, and the second bucket, whose upload failed
\* then, gets it now
C23_Witness ==
    /\ output.n = 2
    /\ Len(output.puts) = 2
    /\ output.puts[1].request = "none"
    /\ output.puts[2].request = "upload"
    /\ output.puts[2].err = ""
    /\ output.puts[2].before = NilBytes
    /\ output.S3[1].lastSuccessfulWritten = output.tb
    /\ output.S3[2].lastSuccessfulWritten = output.tb

(***************************************************************************)
(* One scan cycle over a store left by earlier runs: the records hold any  *)
(* source, certificate and challenge state.                                *)
(***************************************************************************)
DecideNow == 100 * Day

\* seconds left on a stored certificate: expired, expiring this second, 20
\* days, one second inside the window, the window's edge, 40 days
LeftSample == {-1, 0, 20 * Day, DaysBefore * Day - 1, DaysBefore * Day, 40 * Day}

DecideRecords ==
    {[Source |-> s, Type |-> "user", CA |-> "roots", Certificate |-> c,
      PrivateKey |-> "key", Challenge |-> ch] :
        s \in {"self-signed", "le-prod"},
        c \in {NoCert, BadCert} \cup {Cert(DecideNow + l) : l \in LeftSample},
        ch \in {NoChallenge, "dns-01"}}

\* the bootstrap sentinel is missing (a first start) or holds the record an
\* earlier issuance wrote, far from expiry
BootstrapRecord ==
    [Source |-> BootstrapSource, Type |-> "admin", CA |-> "roots",
     Certificate |-> Cert(DecideNow + 90 * Day), PrivateKey |-> "key",
     Challenge |-> NoChallenge]

InitDecide ==
    /\ InitPathIdle
    /\ InitScan
    /\ InitOp
    /\ InitAcme
    /\ InitStarted
    /\ InitSink
    /\ InitPub
    /\ \E present \in SUBSET {pathFromHost(ourHN), pathFromHost(UserHN)},
          boot \in SUBSET {pathFromHost(BootstrapHN)} :
            \E drawn \in [present -> DecideRecords] :
                store = [q \in present \cup boot |->
                            IF q \in present THEN drawn[q] ELSE BootstrapRecord]
    /\ now = DecideNow
    /\ updateRequests = 0

NextDecide ==
    ScanStart \/ ScanEval \/ ScanIssue \/ ScanSave \/ ScanSignal \/ ScanReturn

SpecDecide == InitDecide /\ [][NextDecide]_vars

(***************************************************************************)
(* One scan cycle over a store that lists any of three hosts besides the   *)
(* bootstrap sentinel: the daemon's own and two of the operator's, in any  *)
(* order.                                                                  *)
(***************************************************************************)
\* a second host of the operator's: "b"
OtherHN == <<98>>

\* certificates inside the renewal window and far from expiry
OrderRecords ==
    {[Source |-> "self-signed", Type |-> "user", CA |-> "roots",
      Certificate |-> Cert(DecideNow + l), PrivateKey |-> "key",
      Challenge |-> NoChallenge] : l \in {20 * Day, 90 * Day}}

InitOrder ==
    /\ InitPathIdle
    /\ InitScan
    /\ InitOp
    /\ InitAcme
    /\ InitStarted
    /\ InitSink
    /\ InitPub
    /\ \E present \in SUBSET {pathFromHost(ourHN), pathFromHost(UserHN),
                               pathFromHost(OtherHN)},
          boot \in SUBSET {pathFromHost(BootstrapHN)} :
            \E drawn \in [present -> OrderRecords] :
                store = [q \in present \cup boot |->
                            IF q \in present THEN drawn[q] ELSE BootstrapRecord]
    /\ now = DecideNow
    /\ updateRequests = 0

SpecOrder == InitOrder /\ [][NextDecide]_vars

\* the hosts of seq, in its order, that are not fixed hosts
NotFixed(seq) == SelectSeq(seq, LAMBDA hn : \A i \in DOMAIN fixedHosts : fixedHosts[i] # hn)

\* the number of times hn occurs in seq
Occurrences(seq, hn) == Cardinality({i \in DOMAIN seq : seq[i] = hn})

\* C24: a cycle whose FetchCerts succeeded evaluates the hosts in this
\* order: 'proxy-bootstrap', the daemon's own hostname, then the hosts the
\* store listed that are neither, in the order the store listed them; the
\* hosts evaluated so far are always the start of that order, a cycle that
\* returns has evaluated all of it, and no host is evaluated twice, a fixed
\* host that the store lists included.
C24_ScanOrder ==
    /\ [][(scanPc = "start" /\ scanPc' = "eval") =>
            \E order \in ListOrders(store) :
                cycle'.plan = <<BootstrapHN, ourHN>>
                              \o NotFixed([i \in DOMAIN order |-> hostFromPath(order[i])])]_vars
    /\ [](cycle.fetchErr = "" =>
            /\ Len(cycle.seen) <= Len(cycle.plan)
            /\ cycle.seen = SubSeq(cycle.plan, 1, Len(cycle.seen))
            /\ scanPc = "returned" => cycle.seen = cycle.plan
            /\ \A i \in DOMAIN cycle.seen : Occurrences(cycle.seen, cycle.seen[i]) = 1
            /\ (scanPc # "start" /\ ~ev.done) => ev.host = cycle.seen[Len(cycle.seen)])

\* the store lists the daemon's own host and both of the operator's, and the
\* cycle has returned after evaluating the fixed hosts and then "b" before
\* "a"
C24_Witness ==
    /\ scanPc = "returned"
    /\ pathFromHost(ourHN) \in DOMAIN store
    /\ cycle.seen = <<BootstrapHN, ourHN, OtherHN, UserHN>>

\* the same store listed the other way round
C24_OtherOrderReached ==
    /\ scanPc = "returned"
    /\ pathFromHost(ourHN) \in DOMAIN store
    /\ cycle.seen = <<BootstrapHN, ourHN, UserHN, OtherHN>>

\* the record renewCertIfNeeded loaded for the host in ev
Loaded == ev.load.chc

HasRecord == ev.load.err = ""

\* the evaluation in ev returned an error without calling a source or
\* writing the store
Blocked ==
    /\ ev.done
    /\ ev.err # ""
    /\ ~ev.needNew
    /\ ~ev.called
    /\ ~ev.wrote
    /\ store[pathFromHost(ev.host)] = Loaded

\* C1: a record with a pending challenge makes renewCertIfNeeded return an
\* error, with no certificate source called and the store not written,
\* whatever its certificate is.
C1_PendingChallengeBlocks ==
    HasRecord /\ Loaded.Challenge # NoChallenge =>
        Blocked /\ ev.err = "challenge not empty"

\* a pending challenge on a certificate that expires within days_before
C1_Witness ==
    /\ HasRecord
    /\ Loaded.Challenge # NoChallenge
    /\ Loaded.Certificate = Cert(ev.at + 20 * Day)
    /\ ev.done

\* C2 as claimed: a record without pending challenge and with an empty
\* certificate is given a new certificate in the same scan cycle.
C2_EmptyCertificateRenews ==
    HasRecord /\ Loaded.Challenge = NoChallenge /\ Loaded.Certificate.pem = "none" =>
        ev.needNew

\* C2 as amended: for a record without pending challenge and with an empty
\* certificate renewCertIfNeeded returns the error "no cert found in pem":
\* no source is called and the store is not written.
C2_EmptyCertificateBlocks ==
    HasRecord /\ Loaded.Challenge = NoChallenge /\ Loaded.Certificate.pem = "none" =>
        Blocked /\ ev.err = "no cert found in pem"

C2_Witness ==
    /\ HasRecord
    /\ Loaded.Challenge = NoChallenge
    /\ Loaded.Certificate = NoCert
    /\ ev.host = UserHN
    /\ ev.done

\* C3: a record without pending challenge whose certificate's notAfter is
\* before the current time makes renewCertIfNeeded return an error, with no
\* source called and the store unchanged.
C3_ExpiredBlocks ==
    /\ HasRecord
    /\ Loaded.Challenge = NoChallenge
    /\ Loaded.Certificate.pem = "cert"
    /\ Loaded.Certificate.notAfter < ev.at
    => Blocked /\ ev.err = "cert already expired"

C3_Witness ==
    /\ HasRecord
    /\ Loaded.Challenge = NoChallenge
    /\ Loaded.Certificate = Cert(ev.at - 1)
    /\ ev.done

\* C4: for a record without pending challenge and with an unexpired
\* certificate, RenewCertNow is called if and only if notAfter is strictly
\* before now + days_before days, and then with the record's own source;
\* otherwise nil is returned, no source is called and the store is not
\* written.
C4_RenewsInsideWindowOnly ==
    /\ HasRecord
    /\ Loaded.Challenge = NoChallenge
    /\ Loaded.Certificate.pem = "cert"
    /\ Loaded.Certificate.notAfter >= ev.at
    => /\ ev.needNew <=> Loaded.Certificate.notAfter < ev.at + DaysBefore * Day
       /\ ev.needNew => ev.source = Loaded.Source /\ (ev.done \/ scanPc \in {"issue", "save", "signal"})
       /\ ev.called => ev.needNew
       /\ ~ev.needNew =>
            /\ ev.done /\ ev.err = "" /\ ~ev.called /\ ~ev.wrote
            /\ store[pathFromHost(ev.host)] = Loaded

\* days_before is 32: the daemon's own certificate with 40 days left was left
\* alone, and the user host's with 20 days left was renewed from its own
\* source, which is not the bootstrap source
C4_Witness ==
    /\ DaysBefore = 32
    /\ ev.host = UserHN
    /\ HasRecord
    /\ Loaded.Challenge = NoChallenge
    /\ Loaded.Certificate = Cert(ev.at + 20 * Day)
    /\ Loaded.Source = "le-prod"
    /\ ev.wrote
    /\ store[pathFromHost(UserHN)].Source = "le-prod"
    /\ pathFromHost(ourHN) \in DOMAIN store
    /\ store[pathFromHost(ourHN)].Certificate = Cert(ev.at + 40 * Day)
    /\ store[pathFromHost(ourHN)].Type = "user"

\* C5: when the store reports NotFound for the hostname, RenewCertNow is
\* called with the bootstrap source.
C5_MissingUsesBootstrap ==
    ev.load.err = "notfound" =>
        /\ ev.needNew
        /\ ev.source = BootstrapSource
        /\ ev.done \/ scanPc \in {"issue", "save", "signal"}
        /\ ev.done /\ ev.err = "" => ev.wrote

\* the daemon's own hostname had no record and got one from the bootstrap source
C5_Witness ==
    /\ ev.load.err = "notfound"
    /\ ev.host = ourHN
    /\ ev.wrote
    /\ store[pathFromHost(ourHN)].Source = BootstrapSource

\* C29: when LoadPath fails with an error other than NotFound,
\* renewCertIfNeeded returns that error at once: the host is not taken for a
\* missing one, no source is called for it, bootstrap or other, and the
\* evaluation writes nothing to the store and sends no signal; the cycle goes
\* on with the error as its result so far.
C29_LoadErrorAborts ==
    /\ [](ev.load.err \in StoreErrors =>
            /\ ev.done
            /\ ev.err = ev.load.err
            /\ ~ev.needNew
            /\ ev.source = ""
            /\ ~ev.called
            /\ ~ev.wrote)
    /\ [][(ev' # ev /\ ev'.load.err \in StoreErrors) =>
            /\ store' = store
            /\ updateRequests' = updateRequests
            /\ hist' = hist
            /\ scanPc' = "eval"
            /\ retErr' = ev'.load.err
            /\ cycle'.calls = cycle.calls
            /\ cycle'.writes = cycle.writes]_vars

\* the load of the daemon's own host, which has no record, failed with a
\* communications error: the cycle has returned that error and the host has
\* still no record
C29_Witness ==
    /\ scanPc = "returned"
    /\ ev.host = ourHN
    /\ ev.load.err = "comms"
    /\ retErr = "comms"
    /\ pathFromHost(ourHN) \notin DOMAIN store
    /\ cycle.seen = <<BootstrapHN, ourHN>>

InitPathSpec ==
    /\ InitPath
    /\ InitScan
    /\ InitOp
    /\ InitAcme
    /\ InitStarted
    /\ InitSink
    /\ InitPub
    /\ store = << >>
    /\ now = 0
    /\ updateRequests = 0

SpecPath == InitPathSpec /\ [][NextPath]_vars

====
